---- MODULE Spec2Model ----
(***************************************************************************)
(* Model of the memo parser and renderer of html_generator.py, and of the  *)
(* two programs that run a screening with it: main of bramble_screen.py    *)
(* and the web form of streamlit_app.py.                                   *)
(*                                                                         *)
(* A Python string is a sequence of tokens.  A token is one punctuation or *)
(* whitespace character ("#", "*", " ", "\n", "|", "[", ...), or a word    *)
(* (a maximal run of letters and digits, kept whole: no operation of the   *)
(* code splits a word, and the substring tests of the code that look       *)
(* inside a word are tables over the words of the model), or one piece of  *)
(* markup that the code itself writes ("<p>", "<strong>", ...).            *)
(***************************************************************************)
EXTENDS Integers, Sequences, FiniteSets, TLC

VARIABLES pc, lines, idx, sections, current_section, current_content,
          template, bull_case, bear_case, deliberation, html, raised,
          arg, ret, calls, main_locals, session_state

vars == <<pc, lines, idx, sections, current_section, current_content,
          template, bull_case, bear_case, deliberation, html, raised,
          arg, ret, calls, main_locals, session_state>>

\* the variables of the screening run around the memo functions: the external steps
\* taken so far, the locals of the orchestrator, and the session of the web form
screening == <<calls, main_locals, session_state>>

(***************************************************************************)
(* str primitives                                                          *)
(***************************************************************************)
NL == "\n"

IsSpace(t) == t \in {" ", NL, "\t"}

\* s[i:] with a 1-based first index
From(s, i) == SubSeq(s, i, Len(s))

RECURSIVE Cat(_)
Cat(ss) == IF ss = <<>> THEN <<>> ELSE Head(ss) \o Cat(Tail(ss))

RECURSIVE Join(_, _)
Join(ss, sep) ==
    IF ss = <<>> THEN <<>>
    ELSE IF Len(ss) = 1 THEN Head(ss)
    ELSE Head(ss) \o sep \o Join(Tail(ss), sep)

RECURSIVE LStrip(_)
LStrip(s) == IF s # <<>> /\ IsSpace(Head(s)) THEN LStrip(Tail(s)) ELSE s

RECURSIVE RStrip(_)
RStrip(s) ==
    IF s # <<>> /\ IsSpace(s[Len(s)]) THEN RStrip(SubSeq(s, 1, Len(s) - 1)) ELSE s

Strip(s) == RStrip(LStrip(s))

StartsWith(s, p) == Len(s) >= Len(p) /\ SubSeq(s, 1, Len(p)) = p

\* p occurs in s at position i
At(s, p, i) == i >= 1 /\ i + Len(p) - 1 <= Len(s) /\ SubSeq(s, i, i + Len(p) - 1) = p

\* 'p in s'
Contains(s, p) == \E i \in 1..(Len(s) + 1) : At(s, p, i)

\* s.find(p, i): the first position >= i where p occurs, 0 when there is none
Find(s, p, i) ==
    LET hits == {j \in i..(Len(s) - Len(p) + 1) : At(s, p, j)}
    IN  IF hits = {} THEN 0 ELSE CHOOSE j \in hits : \A k \in hits : j <= k

\* s.split(sep) for a non-empty separator
RECURSIVE Split(_, _)
Split(s, sep) ==
    LET j == Find(s, sep, 1)
    IN  IF j = 0 THEN <<s>>
        ELSE <<SubSeq(s, 1, j - 1)>> \o Split(From(s, j + Len(sep)), sep)

\* s.replace(old, new)
RECURSIVE Replace(_, _, _)
Replace(s, old, new) ==
    LET j == Find(s, old, 1)
    IN  IF j = 0 THEN s
        ELSE SubSeq(s, 1, j - 1) \o new \o Replace(From(s, j + Len(old)), old, new)

(***************************************************************************)
(* The words of the model and their letter case (str.upper, str.lower).    *)
(***************************************************************************)
Upper(t) ==
    CASE t \in {"pursue", "Pursue"} -> "PURSUE"
      [] t \in {"pass", "Pass"} -> "PASS"
      [] t \in {"monitor", "Monitor"} -> "MONITOR"
      [] t \in {"criterion", "Criterion"} -> "CRITERION"
      [] t \in {"rating", "Rating"} -> "RATING"
      [] t \in {"assessment", "Assessment"} -> "ASSESSMENT"
      [] t \in {"strong", "Strong"} -> "STRONG"
      [] t \in {"moderate", "Moderate"} -> "MODERATE"
      [] t \in {"weak", "Weak"} -> "WEAK"
      [] t \in {"high", "High"} -> "HIGH"
      [] t \in {"medium", "Medium"} -> "MEDIUM"
      [] t \in {"low", "Low"} -> "LOW"
      [] t \in {"overall", "Overall"} -> "OVERALL"
      [] t \in {"fit", "Fit"} -> "FIT"
      [] t \in {"team", "Team"} -> "TEAM"
      [] t \in {"terms", "Terms"} -> "TERMS"
      [] t \in {"recommendation", "Recommendation"} -> "RECOMMENDATION"
      [] t \in {"opportunity", "Opportunity"} -> "OPPORTUNITY"
      [] t \in {"ticket", "Ticket"} -> "TICKET"
      [] t \in {"size", "Size"} -> "SIZE"
      [] t \in {"rationale", "Rationale"} -> "RATIONALE"
      [] t \in {"acme", "Acme"} -> "ACME"
      [] t \in {"confidence", "Confidence"} -> "CONFIDENCE"
      [] t \in {"information", "Information"} -> "INFORMATION"
      [] t \in {"gaps", "Gaps"} -> "GAPS"
      [] t \in {"a", "b", "c", "d", "x", "y", "u", "v"} ->
            (CASE t = "a" -> "A" [] t = "b" -> "B" [] t = "c" -> "C" [] t = "d" -> "D"
               [] t = "x" -> "X" [] t = "y" -> "Y" [] t = "u" -> "U" [] t = "v" -> "V")
      [] OTHER -> t

Lower(t) ==
    CASE t \in {"PURSUE", "Pursue"} -> "pursue"
      [] t \in {"PASS", "Pass"} -> "pass"
      [] t \in {"MONITOR", "Monitor"} -> "monitor"
      [] t \in {"CRITERION", "Criterion"} -> "criterion"
      [] t \in {"RATING", "Rating"} -> "rating"
      [] t \in {"ASSESSMENT", "Assessment"} -> "assessment"
      [] t \in {"STRONG", "Strong"} -> "strong"
      [] t \in {"MODERATE", "Moderate"} -> "moderate"
      [] t \in {"WEAK", "Weak"} -> "weak"
      [] t \in {"HIGH", "High"} -> "high"
      [] t \in {"MEDIUM", "Medium"} -> "medium"
      [] t \in {"LOW", "Low"} -> "low"
      [] t \in {"OVERALL", "Overall"} -> "overall"
      [] t \in {"FIT", "Fit"} -> "fit"
      [] t \in {"TEAM", "Team"} -> "team"
      [] t \in {"TERMS", "Terms"} -> "terms"
      [] t \in {"RECOMMENDATION", "Recommendation"} -> "recommendation"
      [] t \in {"OPPORTUNITY", "Opportunity"} -> "opportunity"
      [] t \in {"TICKET", "Ticket"} -> "ticket"
      [] t \in {"SIZE", "Size"} -> "size"
      [] t \in {"RATIONALE", "Rationale"} -> "rationale"
      [] t \in {"ACME", "Acme"} -> "acme"
      [] t \in {"CONFIDENCE", "Confidence"} -> "confidence"
      [] t \in {"INFORMATION", "Information"} -> "information"
      [] t \in {"GAPS", "Gaps"} -> "gaps"
      [] t \in {"A", "B", "C", "D", "X", "Y", "U", "V"} ->
            (CASE t = "A" -> "a" [] t = "B" -> "b" [] t = "C" -> "c" [] t = "D" -> "d"
               [] t = "X" -> "x" [] t = "Y" -> "y" [] t = "U" -> "u" [] t = "V" -> "v")
      [] OTHER -> t

UpperS(s) == [i \in 1..Len(s) |-> Upper(s[i])]
LowerS(s) == [i \in 1..Len(s) |-> Lower(s[i])]

(***************************************************************************)
(* markdown_to_html                                                        *)
(***************************************************************************)
A_OPEN == "<a href=\""
A_MID == "\" target=\"_blank\" class=\"citation\">"
A_CLOSE == "</a>"

\* re.sub(r'\[\]\([^)]*\)', '', s)
RECURSIVE SubEmptyLabel(_)
SubEmptyLabel(s) ==
    IF s = <<>> THEN <<>>
    ELSE LET close == Find(s, <<")">>, 4)
         IN  IF At(s, <<"[", "]", "(">>, 1) /\ close # 0
             THEN SubEmptyLabel(From(s, close + 1))
             ELSE <<Head(s)>> \o SubEmptyLabel(Tail(s))

\* the links with an empty target left in the text
KeepEmptyTarget(s) == s

\* re.sub(r'\[[^\]]+\]\(\)', '', s)
RECURSIVE SubEmptyTarget(_)
SubEmptyTarget(s) ==
    IF s = <<>> THEN <<>>
    ELSE LET rb == Find(s, <<"]">>, 2)
         IN  IF Head(s) = "[" /\ rb > 2 /\ At(s, <<"]", "(", ")">>, rb)
             THEN SubEmptyTarget(From(s, rb + 3))
             ELSE <<Head(s)>> \o SubEmptyTarget(Tail(s))

\* re.sub(r'\[([^\]]+)\]\(([^)]+)\)', r'<a href="\2" target="_blank" class="citation">\1</a>', s)
RECURSIVE SubLinks(_)
SubLinks(s) ==
    IF s = <<>> THEN <<>>
    ELSE LET rb == Find(s, <<"]">>, 2)
             close == IF rb = 0 THEN 0 ELSE Find(s, <<")">>, rb + 2)
         IN  IF Head(s) = "[" /\ rb > 2 /\ At(s, <<"]", "(">>, rb) /\ close > rb + 2
             THEN <<A_OPEN>> \o SubSeq(s, rb + 2, close - 1) \o <<A_MID>>
                      \o SubSeq(s, 2, rb - 1) \o <<A_CLOSE>>
                      \o SubLinks(From(s, close + 1))
             ELSE <<Head(s)>> \o SubLinks(Tail(s))

\* The end of the shortest r'\*\*(.+?)\*\*' match at the head of s: the position of
\* the closing pair, 0 when there is no match ('.' does not match a line break).
RECURSIVE BoldClose(_, _)
BoldClose(s, j) ==
    IF j + 1 > Len(s) \/ s[j - 1] = NL THEN 0
    ELSE IF At(s, <<"*", "*">>, j) THEN j
    ELSE BoldClose(s, j + 1)

BoldAt(s) == IF At(s, <<"*", "*">>, 1) /\ Len(s) >= 5 THEN BoldClose(s, 4) ELSE 0

\* re.sub(r'\*\*(.+?)\*\*', r'<strong>\1</strong>', s)
RECURSIVE SubBold(_)
SubBold(s) ==
    IF s = <<>> THEN <<>>
    ELSE LET j == BoldAt(s)
         IN  IF j # 0
             THEN <<"<strong>">> \o SubSeq(s, 3, j - 1) \o <<"</strong>">>
                      \o SubBold(From(s, j + 2))
             ELSE <<Head(s)>> \o SubBold(Tail(s))

\* a paragraph left in one piece
SplitBulletsNone(s, i) == <<s>>

\* re.split(r'\n[-*]\s', p)
RECURSIVE SplitBullets(_, _)
SplitBullets(s, i) ==
    IF i + 2 > Len(s) THEN <<s>>
    ELSE IF s[i] = NL /\ s[i + 1] \in {"-", "*"} /\ IsSpace(s[i + 2])
         THEN <<SubSeq(s, 1, i - 1)>> \o SplitBullets(From(s, i + 3), 1)
         ELSE SplitBullets(s, i + 1)

IsBulletStart(p) == StartsWith(p, <<"-", " ">>) \/ StartsWith(p, <<"*", " ">>)

\* one paragraph of markdown_to_html, already stripped and non-empty
RenderParagraph(p, preserve_breaks) ==
    IF IsBulletStart(p)
    THEN LET items0 == SplitBullets(p, 1)
             items == <<From(items0[1], 3)>> \o Tail(items0)
             kept == SelectSeq(items, LAMBDA it : Strip(it) # <<>>)
         IN  <<"<ul>">>
                 \o Cat([k \in 1..Len(kept) |-> <<"<li>">> \o Strip(kept[k]) \o <<"</li>">>])
                 \o <<"</ul>">>
    ELSE IF preserve_breaks
    THEN LET ls == SelectSeq(Split(p, <<NL>>), LAMBDA l : Strip(l) # <<>>)
         IN  <<"<p>">> \o Join([k \in 1..Len(ls) |-> Strip(ls[k])], <<"<br>", NL>>)
                 \o <<"</p>">>
    ELSE <<"<p>">> \o Replace(p, <<NL>>, <<" ">>) \o <<"</p>">>

markdown_to_html(text, preserve_breaks) ==
    LET t1 == SubEmptyLabel(text)
        t2 == SubEmptyTarget(t1)
        t3 == SubLinks(t2)
        t4 == SubBold(t3)
        paragraphs == Split(t4, <<NL, NL>>)
        stripped == [k \in 1..Len(paragraphs) |-> Strip(paragraphs[k])]
        kept == SelectSeq(stripped, LAMBDA p : p # <<>>)
    IN  Join([k \in 1..Len(kept) |-> RenderParagraph(kept[k], preserve_breaks)], <<NL>>)

(***************************************************************************)
(* Pieces of the regular expressions of the extractors                     *)
(***************************************************************************)
\* group of a trailing r'\s*(.+)' on a line: <<>> when it does not match
TailGroup(rest) ==
    IF rest = <<>> THEN <<>>
    ELSE IF LStrip(rest) # <<>> THEN LStrip(rest)
    ELSE <<rest[Len(rest)]>>

\* r'^\d+\.'
IsNumber(t) == t \in {"1", "2", "3"}
NumberDot(line) == Len(line) >= 2 /\ IsNumber(line[1]) /\ line[2] = "."

\* re.sub(r'^\d+\.\s*', '', line) on a line that starts with a number and a dot
StripNumber(line) == LStrip(From(line, 3))

\* The first position j >= i where `mark` occurs in s with something left after it
\* (the (.+) that follows needs one character): 0 when there is none.
RECURSIVE FindWithRest(_, _, _)
FindWithRest(s, mark, i) ==
    LET j == Find(s, mark, i)
    IN  IF j = 0 THEN 0
        ELSE IF j + Len(mark) <= Len(s) THEN j
        ELSE FindWithRest(s, mark, j + 1)

\* re.match(r'\*\*(.+?):\*\*\s*(.+)', line): <<label, value>>, or <<>> for no match
MatchLabelValue(line) ==
    IF ~StartsWith(line, <<"*", "*">>) THEN <<>>
    ELSE LET j == FindWithRest(line, <<":", "*", "*">>, 4)
         IN  IF j = 0 THEN <<>>
             ELSE <<SubSeq(line, 3, j - 1), TailGroup(From(line, j + 3))>>

parse_snapshot(text) ==
    LET ls == Split(text, <<NL>>)
        stripped == [k \in 1..Len(ls) |-> Strip(ls[k])]
        ok == SelectSeq(stripped, LAMBDA l :
                  /\ StartsWith(l, <<"*", "*">>)
                  /\ Contains(l, <<":", "*", "*">>)
                  /\ MatchLabelValue(l) # <<>>)
    IN  [k \in 1..Len(ok) |->
            [label |-> MatchLabelValue(ok[k])[1],
             value |-> SubLinks(MatchLabelValue(ok[k])[2])]]

parse_terms(text) ==
    LET ls == Split(text, <<NL>>)
        stripped == [k \in 1..Len(ls) |-> Strip(ls[k])]
        ok == SelectSeq(stripped, LAMBDA l :
                  /\ StartsWith(l, <<"*", "*">>)
                  /\ Contains(l, <<":", "*", "*">>)
                  /\ MatchLabelValue(l) # <<>>)
    IN  [k \in 1..Len(ok) |->
            [label |-> MatchLabelValue(ok[k])[1], value |-> MatchLabelValue(ok[k])[2]]]

(***************************************************************************)
(* parse_fit_table                                                         *)
(***************************************************************************)
\* [c.strip() for c in line.split('|')[1:-1]]
TableCellsRaw(line) ==
    LET parts == Split(line, <<"|">>)
    IN  IF Len(parts) < 2 THEN <<>> ELSE SubSeq(parts, 2, Len(parts) - 1)

\* the cells as the split leaves them, blanks around them kept
TableCellsUntrimmed(line) == TableCellsRaw(line)

TableCells(line) ==
    LET raw == TableCellsRaw(line) IN [k \in 1..Len(raw) |-> Strip(raw[k])]

\* a first-cell test that compares with the header word as it is written
IsDataCellExact(cell) == cell \notin {<<"Criterion">>, <<>>}

\* cells[0].lower() not in ['criterion', '']
IsDataCell(cell) == LowerS(cell) \notin {<<"criterion">>, <<>>}

IsFitRow(line) ==
    /\ StartsWith(line, <<"|">>)
    /\ ~Contains(line, <<"-", "-", "-">>)
    /\ Len(TableCells(line)) >= 3
    /\ IsDataCell(TableCells(line)[1])

FitRow(line) ==
    LET cells == TableCells(line)
    IN  [criterion |-> cells[1], rating |-> cells[2],
         assessment |-> IF Len(cells) > 2 THEN cells[3] ELSE <<>>]

\* re.search(r'(STRONG|MODERATE|WEAK)', line, re.IGNORECASE): the match upper-cased
RECURSIVE SearchWord(_, _)
SearchWord(line, words) ==
    IF line = <<>> THEN <<>>
    ELSE IF Upper(Head(line)) \in words THEN <<Upper(Head(line))>>
    ELSE SearchWord(Tail(line), words)

HasOverallFit(line) ==
    Contains(line, <<"Overall", " ", "Fit">>) \/ Contains(line, <<"OVERALL", " ", "FIT">>)

RECURSIVE OverallOf(_, _)
OverallOf(ls, overall) ==
    IF ls = <<>> THEN overall
    ELSE LET m == SearchWord(Head(ls), {"STRONG", "MODERATE", "WEAK"})
         IN  OverallOf(Tail(ls), IF HasOverallFit(Head(ls)) /\ m # <<>> THEN m ELSE overall)

\* <<rows, overall>>
parse_fit_table(text) ==
    LET ls == Split(text, <<NL>>)
        stripped == [k \in 1..Len(ls) |-> Strip(ls[k])]
        rowLines == SelectSeq(stripped, IsFitRow)
    IN  <<[k \in 1..Len(rowLines) |-> FitRow(rowLines[k])], OverallOf(stripped, <<>>)>>

(***************************************************************************)
(* parse_verdict                                                           *)
(***************************************************************************)
VerdictWords == {"PURSUE", "PASS", "MONITOR"}

IsHashVerdict(line) == Len(line) = 3 /\ line[1] = "#" /\ line[2] = " " /\ line[3] \in VerdictWords
IsBareVerdict(line) == Len(line) = 1 /\ line[1] \in VerdictWords

HasConfidenceMark(line) ==
    \/ Contains(line, <<"*", "*", "Confidence", ":", "*", "*">>)
    \/ Contains(line, <<"Confidence", ":">>)

IsRationaleLine(line) ==
    /\ line # <<>>
    /\ Head(line) # "#"
    /\ Head(line) # "*"
    /\ ~Contains(line, <<"Confidence">>)

\* the for loop of parse_verdict; found tells whether it left by the break
RECURSIVE VerdictLoop(_, _, _)
VerdictLoop(ls, verdict, confidence) ==
    IF ls = <<>>
    THEN [verdict |-> verdict, confidence |-> confidence, rationale |-> <<>>, found |-> FALSE]
    ELSE LET line == Strip(Head(ls))
             m == SearchWord(line, {"HIGH", "MEDIUM", "LOW"})
         IN  IF IsHashVerdict(line) THEN VerdictLoop(Tail(ls), From(line, 3), confidence)
             ELSE IF IsBareVerdict(line) THEN VerdictLoop(Tail(ls), line, confidence)
             ELSE IF HasConfidenceMark(line)
                  THEN VerdictLoop(Tail(ls), verdict, IF m # <<>> THEN m ELSE confidence)
             ELSE IF IsRationaleLine(line)
                  THEN [verdict |-> verdict, confidence |-> confidence,
                        rationale |-> SubBold(line), found |-> TRUE]
             ELSE VerdictLoop(Tail(ls), verdict, confidence)

\* re.sub(r'#\s*(PURSUE|PASS|MONITOR)', '', s)
RECURSIVE SubVerdictMark(_)
SubVerdictMark(s) ==
    IF s = <<>> THEN <<>>
    ELSE LET r == LStrip(Tail(s))
         IN  IF Head(s) = "#" /\ r # <<>> /\ Head(r) \in VerdictWords
             THEN SubVerdictMark(Tail(r))
             ELSE <<Head(s)>> \o SubVerdictMark(Tail(s))

\* re.sub(r'\*\*Confidence:\*\*\s*(HIGH|MEDIUM|LOW)', '', s, flags=re.IGNORECASE)
RECURSIVE SubConfidenceMark(_)
SubConfidenceMark(s) ==
    IF s = <<>> THEN <<>>
    ELSE LET r == LStrip(From(s, 7))
         IN  IF /\ Len(s) >= 7
                /\ s[1] = "*" /\ s[2] = "*" /\ Upper(s[3]) = "CONFIDENCE"
                /\ s[4] = ":" /\ s[5] = "*" /\ s[6] = "*"
                /\ r # <<>> /\ Upper(Head(r)) \in {"HIGH", "MEDIUM", "LOW"}
             THEN SubConfidenceMark(Tail(r))
             ELSE <<Head(s)>> \o SubConfidenceMark(Tail(s))

\* the fallback rationale: the whole text with the markers removed
RemainingRationale(text) == Strip(SubBold(SubConfidenceMark(SubVerdictMark(Strip(text)))))

\* [verdict, confidence, rationale]
parse_verdict(text) ==
    LET r == VerdictLoop(Split(text, <<NL>>), <<>>, <<>>)
    IN  [verdict |-> r.verdict, confidence |-> r.confidence,
         rationale |-> IF r.found THEN r.rationale ELSE RemainingRationale(text)]

(***************************************************************************)
(* parse_bullet_points                                                     *)
(***************************************************************************)
RECURSIVE SepRun(_)
SepRun(s) == IF s # <<>> /\ Head(s) \in {"-", ":"} THEN 1 + SepRun(Tail(s)) ELSE 0

\* r'\s*[-:]+\s*(.+)' on what follows the closing bold marker: <<group>>, or <<>>
SepTail(rest) ==
    LET r1 == LStrip(rest)
        run == SepRun(r1)
        after == From(r1, run + 1)
    IN  IF run = 0 THEN <<>>
        ELSE IF after # <<>> THEN <<TailGroup(after)>>
        ELSE IF run >= 2 THEN <<<<r1[run]>>>>
        ELSE <<>>

\* re.match(r'\*\*(.+?)\*\*\s*[-:]+\s*(.+)', line) with the closing marker sought
\* from position j on: <<title group, description>>, or <<>>
RECURSIVE BulletMatchFrom(_, _)
BulletMatchFrom(line, j) ==
    LET c == Find(line, <<"*", "*">>, j)
    IN  IF c = 0 THEN <<>>
        ELSE IF SepTail(From(line, c + 2)) # <<>>
             THEN <<SubSeq(line, 3, c - 1), SepTail(From(line, c + 2))[1]>>
        ELSE BulletMatchFrom(line, c + 1)

BulletMatch(line) ==
    IF StartsWith(line, <<"*", "*">>) THEN BulletMatchFrom(line, 4) ELSE <<>>

\* a title taken as the bold text is, its trailing colons kept
KeepColons(s) == s

\* title.rstrip(':')
RECURSIVE RStripColons(_)
RStripColons(s) ==
    IF s # <<>> /\ s[Len(s)] = ":" THEN RStripColons(SubSeq(s, 1, Len(s) - 1)) ELSE s

IsBulletLine(line) == StartsWith(line, <<"-", " ">>) \/ StartsWith(line, <<"*", " ">>)

\* the entry of one bullet line (stripped): <<entry>>, or <<>> when none is added
BulletEntry(line) ==
    LET rest == From(line, 3)
        m == BulletMatch(rest)
    IN  IF m # <<>> THEN <<[title |-> RStripColons(m[1]), description |-> m[2]]>>
        ELSE IF rest # <<>> THEN <<[title |-> <<>>, description |-> rest]>>
        ELSE <<>>

parse_bullet_points(text) ==
    LET ls == Split(text, <<NL>>)
        stripped == [k \in 1..Len(ls) |-> Strip(ls[k])]
        bl == SelectSeq(stripped, IsBulletLine)
    IN  Cat([k \in 1..Len(bl) |-> BulletEntry(bl[k])])

(***************************************************************************)
(* parse_debates, parse_dd                                                 *)
(***************************************************************************)
\* r':?\s*(.+)' : <<group>>, or <<>>
ColonTail(rest) ==
    IF rest = <<>> THEN <<>>
    ELSE IF Head(rest) = ":"
         THEN (IF Tail(rest) = <<>> THEN <<<<":">>>> ELSE <<TailGroup(Tail(rest))>>)
    ELSE <<TailGroup(rest)>>

\* re.match(r'\*\*(.+?)\*\*:?\s*(.+)', line)
DebateMatch(line) ==
    IF ~StartsWith(line, <<"*", "*">>) THEN <<>>
    ELSE LET c == FindWithRest(line, <<"*", "*">>, 4)
         IN  IF c = 0 THEN <<>>
             ELSE <<SubSeq(line, 3, c - 1), ColonTail(From(line, c + 2))[1]>>

DebateEntry(line) ==
    LET rest == StripNumber(line)
        m == DebateMatch(rest)
    IN  IF m # <<>> THEN <<[question |-> m[1], views |-> m[2]]>>
        ELSE IF rest # <<>> THEN <<[question |-> rest, views |-> <<>>]>>
        ELSE <<>>

parse_debates(text) ==
    LET ls == Split(text, <<NL>>)
        stripped == [k \in 1..Len(ls) |-> Strip(ls[k])]
        nl == SelectSeq(stripped, NumberDot)
    IN  Cat([k \in 1..Len(nl) |-> DebateEntry(nl[k])])

parse_dd(text) ==
    LET ls == Split(text, <<NL>>)
        stripped == [k \in 1..Len(ls) |-> Strip(ls[k])]
        nl == SelectSeq(stripped, LAMBDA l : NumberDot(l) /\ StripNumber(l) # <<>>)
    IN  [k \in 1..Len(nl) |-> StripNumber(nl[k])]

(***************************************************************************)
(* parse_risks                                                             *)
(***************************************************************************)
\* re.search(r'Information Gaps:?\s*(.+)', line, re.IGNORECASE): <<group>>, or <<>>
RECURSIVE InfoGapsSearch(_)
InfoGapsSearch(s) ==
    IF Len(s) < 3 THEN <<>>
    ELSE IF /\ Upper(s[1]) = "INFORMATION" /\ s[2] = " " /\ Upper(s[3]) = "GAPS"
            /\ ColonTail(From(s, 4)) # <<>>
         THEN ColonTail(From(s, 4))
    ELSE InfoGapsSearch(Tail(s))

RECURSIVE LeadingSpaces(_)
LeadingSpaces(s) == IF s # <<>> /\ IsSpace(Head(s)) THEN 1 + LeadingSpaces(Tail(s)) ELSE 0

\* re.match(r'^\d+\.\s*\*\*(.+?):\*\*\s*(.+)', line)
RiskBoldMatch(line) == MatchLabelValue(LStrip(From(line, 3)))

\* re.match(r'^\d+\.\s*(.+?):\s*(.+)', line)
RiskPlainMatch(line) ==
    LET r == From(line, 3)
        w == LeadingSpaces(r)
        c == FindWithRest(r, <<":">>, w + 2)
    IN  IF c # 0 THEN <<SubSeq(r, w + 1, c - 1), TailGroup(From(r, c + 1))>>
        ELSE IF w >= 1 /\ w + 1 < Len(r) /\ r[w + 1] = ":"
             THEN <<SubSeq(r, w, w), TailGroup(From(r, w + 2))>>
        ELSE <<>>

\* an entry split at the first colon whatever the markers around the title
RiskEntryPlainOnly(line) ==
    LET m == RiskPlainMatch(line)
    IN  IF m # <<>> THEN <<[title |-> m[1], description |-> m[2]]>> ELSE <<>>

RiskEntry(line) ==
    LET m == IF RiskBoldMatch(line) # <<>> THEN RiskBoldMatch(line) ELSE RiskPlainMatch(line)
    IN  IF m # <<>> THEN <<[title |-> m[1], description |-> m[2]]>> ELSE <<>>

StartsRiskList(line) ==
    Contains(line, <<"Critical", " ", "Risks">>) \/ Contains(line, <<"Key", " ", "Risks">>)

\* a loop that appends to info_gaps before anything started it
RECURSIVE RisksLoopAlways(_, _, _, _)
RisksLoopAlways(ls, in_risks, risks, info_gaps) ==
    IF ls = <<>> THEN <<risks, info_gaps>>
    ELSE LET line == Strip(Head(ls))
             m == InfoGapsSearch(line)
             risks2 == IF in_risks /\ NumberDot(line) THEN risks \o RiskEntry(line) ELSE risks
             gaps2 == IF ~in_risks /\ line # <<>> /\ ~Contains(line, <<"Information">>)
                      THEN info_gaps \o <<" ">> \o line
                      ELSE info_gaps
         IN  IF StartsRiskList(line) THEN RisksLoopAlways(Tail(ls), TRUE, risks, info_gaps)
             ELSE IF Contains(line, <<"Information", " ", "Gaps">>)
                  THEN RisksLoopAlways(Tail(ls), FALSE, risks,
                                       IF m # <<>> THEN m[1] ELSE info_gaps)
             ELSE RisksLoopAlways(Tail(ls), in_risks, risks2, gaps2)

\* the for loop of parse_risks over the remaining lines
RECURSIVE RisksLoop(_, _, _, _)
RisksLoop(ls, in_risks, risks, info_gaps) ==
    IF ls = <<>> THEN <<risks, info_gaps>>
    ELSE LET line == Strip(Head(ls))
             m == InfoGapsSearch(line)
             risks2 == IF in_risks /\ NumberDot(line) THEN risks \o RiskEntry(line) ELSE risks
             gaps2 == IF /\ ~in_risks /\ line # <<>> /\ ~Contains(line, <<"Information">>)
                         /\ info_gaps # <<>>
                      THEN info_gaps \o <<" ">> \o line
                      ELSE info_gaps
         IN  IF StartsRiskList(line) THEN RisksLoop(Tail(ls), TRUE, risks, info_gaps)
             ELSE IF Contains(line, <<"Information", " ", "Gaps">>)
                  THEN RisksLoop(Tail(ls), FALSE, risks, IF m # <<>> THEN m[1] ELSE info_gaps)
             ELSE RisksLoop(Tail(ls), in_risks, risks2, gaps2)

\* <<risks, info_gaps>>
parse_risks(text) == RisksLoop(Split(text, <<NL>>), FALSE, <<>>, <<>>)

(***************************************************************************)
(* save_section                                                            *)
(***************************************************************************)
\* Words of the model that hold a keyword inside them ('RISK' in 'RISKS').
WordHas(w, kw) ==
    \/ w = kw
    \/ <<w, kw>> \in {<<"RISKS", "RISK">>, <<"INVESTORS", "INVESTOR">>,
                      <<"DEBATES", "DEBATE">>, <<"MARKETS", "MARKET">>,
                      <<"PROFIT", "FIT">>, <<"ADDENDUM", "DD">>}

\* 'kw in section_name', kw a keyword of one word or of words and spaces
InName(name, kw) ==
    \E i \in 1..Len(name) :
        /\ i + Len(kw) - 1 <= Len(name)
        /\ \A k \in 1..Len(kw) : WordHas(name[i + k - 1], kw[k])

\* an elif chain that tests RISK before FIT
CategoryRiskFirst(name) ==
    IF InName(name, <<"OPPORTUNITY">>) THEN "opportunity"
    ELSE IF InName(name, <<"SNAPSHOT">>) THEN "snapshot"
    ELSE IF InName(name, <<"MARKET">>) THEN "market"
    ELSE IF InName(name, <<"COMPETITIVE">>) \/ InName(name, <<"COMPETITION">>) THEN "competition"
    ELSE IF InName(name, <<"TEAM">>) THEN "team"
    ELSE IF InName(name, <<"INVESTOR">>) \/ InName(name, <<"EXISTING", " ", "INVESTOR">>)
         THEN "investors"
    ELSE IF InName(name, <<"RISK">>) THEN "risks"
    ELSE IF InName(name, <<"FIT">>) THEN "fit"
    ELSE IF InName(name, <<"BULL">>) THEN "bull"
    ELSE IF InName(name, <<"BEAR">>) THEN "bear"
    ELSE IF InName(name, <<"KEY", " ", "DEBATE">>) \/ InName(name, <<"DEBATES">>) THEN "debates"
    ELSE IF InName(name, <<"RECOMMENDATION">>) THEN "recommendation"
    ELSE IF InName(name, <<"TERMS">>) THEN "terms"
    ELSE IF InName(name, <<"DUE", " ", "DILIGENCE">>) \/ InName(name, <<"DD">>) THEN "dd"
    ELSE IF InName(name, <<"BOTTOM">>) THEN "bottom"
    ELSE "none"

\* The elif chain of save_section: the branch a section name takes.
Category(name) ==
    IF InName(name, <<"OPPORTUNITY">>) THEN "opportunity"
    ELSE IF InName(name, <<"SNAPSHOT">>) THEN "snapshot"
    ELSE IF InName(name, <<"MARKET">>) THEN "market"
    ELSE IF InName(name, <<"COMPETITIVE">>) \/ InName(name, <<"COMPETITION">>) THEN "competition"
    ELSE IF InName(name, <<"TEAM">>) THEN "team"
    ELSE IF InName(name, <<"INVESTOR">>) \/ InName(name, <<"EXISTING", " ", "INVESTOR">>)
         THEN "investors"
    ELSE IF InName(name, <<"FIT">>) THEN "fit"
    ELSE IF InName(name, <<"BULL">>) THEN "bull"
    ELSE IF InName(name, <<"BEAR">>) THEN "bear"
    ELSE IF InName(name, <<"KEY", " ", "DEBATE">>) \/ InName(name, <<"DEBATES">>) THEN "debates"
    ELSE IF InName(name, <<"RECOMMENDATION">>) THEN "recommendation"
    ELSE IF InName(name, <<"TERMS">>) THEN "terms"
    ELSE IF InName(name, <<"RISK">>) THEN "risks"
    ELSE IF InName(name, <<"DUE", " ", "DILIGENCE">>) \/ InName(name, <<"DD">>) THEN "dd"
    ELSE IF InName(name, <<"BOTTOM">>) THEN "bottom"
    ELSE "none"

\* a save_section that renders the team text as it renders the other prose
save_section_team_flat(secs, section_name, content) ==
    IF Category(section_name) = "team"
    THEN [secs EXCEPT !.team = markdown_to_html(Strip(Join(content, <<NL>>)), FALSE)]
    ELSE secs

\* a save that adds the risks of the body to those already in the memo
save_section_risks_kept(secs, section_name, content) ==
    IF Category(section_name) = "risks"
    THEN [secs EXCEPT !.risks = @ \o parse_risks(Strip(Join(content, <<NL>>)))[1],
                      !.info_gaps = parse_risks(Strip(Join(content, <<NL>>)))[2]]
    ELSE secs

\* the sections dict after save_section(sections, section_name, content)
save_section(secs, section_name, content) ==
    LET text == Strip(Join(content, <<NL>>))
        cat == Category(section_name)
        v == parse_verdict(text)
    IN  CASE cat = "opportunity" -> [secs EXCEPT !.opportunity = markdown_to_html(text, FALSE)]
          [] cat = "snapshot" -> [secs EXCEPT !.snapshot = parse_snapshot(text)]
          [] cat = "market" -> [secs EXCEPT !.market = markdown_to_html(text, FALSE)]
          [] cat = "competition" -> [secs EXCEPT !.competition = markdown_to_html(text, FALSE)]
          [] cat = "team" -> [secs EXCEPT !.team = markdown_to_html(text, TRUE)]
          [] cat = "investors" -> [secs EXCEPT !.investors = markdown_to_html(text, FALSE)]
          [] cat = "fit" -> [secs EXCEPT !.fit_table = parse_fit_table(text)[1],
                                         !.overall_fit = parse_fit_table(text)[2]]
          [] cat = "bull" -> [secs EXCEPT !.bull_case = parse_bullet_points(text)]
          [] cat = "bear" -> [secs EXCEPT !.bear_case = parse_bullet_points(text)]
          [] cat = "debates" -> [secs EXCEPT !.key_debates = parse_debates(text)]
          [] cat = "recommendation" ->
                [secs EXCEPT !.verdict = IF v.verdict # <<>> THEN v.verdict ELSE @,
                             !.confidence = IF v.confidence # <<>> THEN v.confidence ELSE @,
                             !.verdict_rationale = v.rationale]
          [] cat = "terms" -> [secs EXCEPT !.terms = parse_terms(text)]
          [] cat = "risks" -> [secs EXCEPT !.risks = parse_risks(text)[1],
                                           !.info_gaps = parse_risks(text)[2]]
          [] cat = "dd" -> [secs EXCEPT !.dd_priorities = parse_dd(text)]
          [] cat = "bottom" -> [secs EXCEPT !.bottom_line = markdown_to_html(text, FALSE)]
          [] OTHER -> secs

(***************************************************************************)
(* parse_analysis                                                          *)
(***************************************************************************)
\* the sections dict parse_analysis starts from
EmptySections ==
    [company_name |-> <<>>, opportunity |-> <<>>, snapshot |-> <<>>, market |-> <<>>,
     competition |-> <<>>, team |-> <<>>, investors |-> <<>>, fit_table |-> <<>>,
     overall_fit |-> <<>>, bull_case |-> <<>>, bear_case |-> <<>>, key_debates |-> <<>>,
     verdict |-> <<>>, verdict_rationale |-> <<>>, confidence |-> <<>>, terms |-> <<>>,
     risks |-> <<>>, info_gaps |-> <<>>, dd_priorities |-> <<>>, bottom_line |-> <<>>]

\* current_section = None; '' and None are both false in the tests of the code
None == <<>>

IsTitleLine(ls) == StartsWith(ls, <<"#", " ">>) /\ ~StartsWith(ls, <<"#", "#", " ">>)
IsSectionHeader(ls) == StartsWith(ls, <<"#", "#", "#", " ">>)
\* a skip test that knows the rule only
IsSkippedRuleOnly(ls) == ls = <<"-", "-", "-">>

IsSkipped(ls) == StartsWith(ls, <<"#", "#", " ">>) \/ ls = <<"-", "-", "-">>

TitleName(ls) == Strip(From(ls, 3))
TitleClean(ls) == Strip(Replace(Replace(TitleName(ls), <<"*", "*">>, <<>>), <<"*">>, <<>>))
TitleIsVerdict(ls) == UpperS(TitleClean(ls)) \in {<<"PURSUE">>, <<"PASS">>, <<"MONITOR">>}

\* a title line taken as a company name and as a verdict at once
TitleUpdateBoth(secs, ls) ==
    [secs EXCEPT !.company_name = TitleName(ls), !.verdict = UpperS(TitleClean(ls))]

\* a title line that leaves a verdict already found alone
TitleUpdateFirst(secs, ls) ==
    IF TitleIsVerdict(ls)
    THEN [secs EXCEPT !.verdict = IF @ = <<>> THEN UpperS(TitleClean(ls)) ELSE @]
    ELSE [secs EXCEPT !.company_name = TitleName(ls)]

\* a call that goes on with the dict an earlier call left behind
KeptSections(left) == left

\* the sections dict of a call of parse_analysis: a new dict, whatever an earlier
\* call left behind
NewSections(left) == EmptySections

\* the sections dict after a title line
TitleUpdate(secs, ls) ==
    IF TitleIsVerdict(ls)
    THEN [secs EXCEPT !.verdict = UpperS(TitleClean(ls))]
    ELSE [secs EXCEPT !.company_name = TitleName(ls)]

\* 'if current_section and current_content: save_section(...)'
Flush(secs, name, content) ==
    IF name # None /\ content # <<>> THEN save_section(secs, name, content) ELSE secs

\* one turn of the for loop of parse_analysis
ParseLine ==
    /\ pc = "parse"
    /\ idx <= Len(lines)
    /\ LET line == lines[idx]
           ls == Strip(line)
       IN  IF IsTitleLine(ls)
           THEN /\ sections' = TitleUpdate(sections, ls)
                /\ UNCHANGED <<current_section, current_content>>
           ELSE IF IsSectionHeader(ls)
           THEN /\ sections' = Flush(sections, current_section, current_content)
                /\ current_section' = UpperS(Strip(From(ls, 5)))
                /\ current_content' = <<>>
           ELSE IF IsSkipped(ls)
           THEN UNCHANGED <<sections, current_section, current_content>>
           ELSE /\ current_content' =
                       IF current_section # None THEN Append(current_content, line)
                       ELSE current_content
                /\ UNCHANGED <<sections, current_section>>
    /\ idx' = idx + 1
    /\ UNCHANGED screening
    /\ UNCHANGED <<pc, lines, template, bull_case, bear_case, deliberation, html, raised, arg, ret>>

\* after the loop: save the last section and return
ParseReturn ==
    /\ pc = "parse"
    /\ idx > Len(lines)
    /\ sections' = Flush(sections, current_section, current_content)
    /\ pc' = "parsed"
    /\ UNCHANGED screening
    /\ UNCHANGED <<lines, idx, current_section, current_content, template, bull_case,
                   bear_case, deliberation, html, raised, arg, ret>>

\* parse_analysis as one function, for comparison with the stepwise run
RECURSIVE ParseFrom(_, _, _, _)
ParseFrom(ls, secs, name, content) ==
    IF ls = <<>> THEN Flush(secs, name, content)
    ELSE LET l == Strip(Head(ls))
         IN  IF IsTitleLine(l) THEN ParseFrom(Tail(ls), TitleUpdate(secs, l), name, content)
             ELSE IF IsSectionHeader(l)
                  THEN ParseFrom(Tail(ls), Flush(secs, name, content),
                                 UpperS(Strip(From(l, 5))), <<>>)
             ELSE IF IsSkipped(l) THEN ParseFrom(Tail(ls), secs, name, content)
             ELSE ParseFrom(Tail(ls), secs, name,
                            IF name # None THEN Append(content, Head(ls)) ELSE content)

parse_analysis(analysis) == ParseFrom(Split(analysis, <<NL>>), EmptySections, None, <<>>)

(***************************************************************************)
(* markdown_to_simple_html                                                 *)
(***************************************************************************)
\* html.escape
EscapeTok(t) ==
    CASE t = "&" -> "&amp;"
      [] t = "<" -> "&lt;"
      [] t = ">" -> "&gt;"
      [] t = "\"" -> "&quot;"
      [] t = "'" -> "&#x27;"
      [] OTHER -> t

Escape(s) == [i \in 1..Len(s) |-> EscapeTok(s[i])]

\* 'if in_list and current_list: result.append(<ul>...)'
CloseList(result, current_list, in_list) ==
    IF in_list /\ current_list # <<>>
    THEN Append(result, <<"<ul>">> \o Cat(current_list) \o <<"</ul>">>)
    ELSE result

\* the for loop of markdown_to_simple_html and the close of the last list
RECURSIVE SimpleLoop(_, _, _, _)
SimpleLoop(ls, result, current_list, in_list) ==
    IF ls = <<>> THEN CloseList(result, current_list, in_list)
    ELSE LET l == Strip(Head(ls))
             esc == SubBold(Escape(l))
             closed == CloseList(result, current_list, in_list)
             open == in_list /\ current_list # <<>>
             cl == IF open THEN <<>> ELSE current_list
             il == IF open THEN FALSE ELSE in_list
         IN  IF l = <<>> THEN SimpleLoop(Tail(ls), closed, cl, il)
             ELSE IF StartsWith(l, <<"#", "#", "#", " ">>)
                  THEN SimpleLoop(Tail(ls),
                           Append(closed, <<"<h4>">> \o From(esc, 5) \o <<"</h4>">>), cl, il)
             ELSE IF StartsWith(l, <<"#", "#", " ">>)
                  THEN SimpleLoop(Tail(ls),
                           Append(closed, <<"<h3>">> \o From(esc, 4) \o <<"</h3>">>), cl, il)
             ELSE IF StartsWith(l, <<"#", " ">>)
                  THEN SimpleLoop(Tail(ls),
                           Append(closed, <<"<h3>">> \o From(esc, 3) \o <<"</h3>">>), cl, il)
             ELSE IF IsBulletLine(l)
                  THEN SimpleLoop(Tail(ls), result,
                           Append(current_list, <<"<li>">> \o From(esc, 3) \o <<"</li>">>), TRUE)
             ELSE IF NumberDot(l) /\ Len(l) >= 3 /\ IsSpace(l[3])
                  THEN SimpleLoop(Tail(ls), result,
                           Append(current_list, <<"<li>">> \o StripNumber(esc) \o <<"</li>">>),
                           TRUE)
             ELSE SimpleLoop(Tail(ls), Append(closed, <<"<p>">> \o esc \o <<"</p>">>), cl, il)

markdown_to_simple_html(text) ==
    Join(SimpleLoop(Split(Strip(text), <<NL>>), <<>>, <<>>, FALSE), <<NL>>)

(***************************************************************************)
(* generate_html.  Each literal of markup that the code writes (with the   *)
(* white space inside it) is one token.                                    *)
(***************************************************************************)
\* datetime.now().strftime('%d %B %Y'): the date of the run
Today == <<"<today>">>

SnapshotHtml(items) ==
    Cat([k \in 1..Len(items) |->
            <<"<div class=snapshot-row>", "<span class=snapshot-label>">> \o items[k].label
                \o <<"</span>", "<span class=snapshot-value>">> \o items[k].value
                \o <<"</span>", "</div>">>])

\* str.split() without argument: the words of s
RECURSIVE WordsOf(_)
WordsOf(s) ==
    LET r == LStrip(s)
        e == Find(r, <<" ">>, 1)
        n == Find(r, <<NL>>, 1)
        t == Find(r, <<"\t">>, 1)
        ends == {x \in {e, n, t} : x # 0}
        first == IF ends = {} THEN Len(r) + 1 ELSE CHOOSE x \in ends : \A y \in ends : x <= y
    IN  IF r = <<>> THEN <<>>
        ELSE <<SubSeq(r, 1, first - 1)>> \o WordsOf(From(r, first))

\* row['rating'].lower().split()[0] raises IndexError when the rating is not
\* empty and has no word
RatingClassRaises(rating) == rating # <<>> /\ WordsOf(LowerS(rating)) = <<>>

RatingClass(rating) == IF rating = <<>> THEN <<>> ELSE WordsOf(LowerS(rating))[1]

FitHtml(rows, overall) ==
    <<"<table class=fit-table><thead>...</thead><tbody>">>
        \o Cat([k \in 1..Len(rows) |->
                <<"<tr>", "<td class=criterion>">> \o rows[k].criterion
                    \o <<"</td>", "<td class=rating><span class=rating-badge ">>
                    \o RatingClass(rows[k].rating) \o <<"\">">> \o rows[k].rating
                    \o <<"</span></td>", "<td>">> \o rows[k].assessment
                    \o <<"</td>", "</tr>">>])
        \o <<"</tbody></table>">>
        \o (IF overall # <<>>
            THEN <<"<div class=overall-fit><strong>Overall Fit: ">> \o overall
                     \o <<"</strong></div>">>
            ELSE <<>>)

CaseHtml(points, open) ==
    IF points = <<>> THEN <<"<p>Not provided</p>">>
    ELSE <<open>>
             \o Cat([k \in 1..Len(points) |->
                     IF points[k].title # <<>>
                     THEN <<"<li>", "<span class=case-title>">> \o points[k].title
                              \o <<":</span> ">> \o points[k].description \o <<"</li>">>
                     ELSE <<"<li>">> \o points[k].description \o <<"</li>">>])
             \o <<"</ul>">>

DebatesHtml(debates) ==
    IF debates = <<>> THEN <<"<p>Not provided</p>">>
    ELSE <<"<ul class=debates-list>">>
             \o Cat([k \in 1..Len(debates) |->
                     <<"<li>", "<span class=debate-question>">> \o debates[k].question
                         \o <<"</span>">>
                         \o (IF debates[k].views # <<>>
                             THEN <<"<span class=debate-views>">> \o debates[k].views
                                      \o <<"</span>">>
                             ELSE <<>>)
                         \o <<"</li>">>])
             \o <<"</ul>">>

\* 'rationale' in term['label'].lower()
IsRationaleLabel(label) == Contains(LowerS(label), <<"rationale">>)
\* 'ticket size' in term['label'].lower()
IsTicketSizeLabel(label) == Contains(LowerS(label), <<"ticket", " ", "size">>)

\* the value of the first term whose label holds 'rationale', '' when there is none
RECURSIVE TicketRationale(_)
TicketRationale(terms) ==
    IF terms = <<>> THEN <<>>
    ELSE IF IsRationaleLabel(Head(terms).label) THEN Head(terms).value
    ELSE TicketRationale(Tail(terms))

\* one turn of the second loop over the terms
TermItem(term, ticket_rationale) ==
    IF IsRationaleLabel(term.label) THEN <<>>
    ELSE IF IsTicketSizeLabel(term.label) /\ ticket_rationale # <<>>
    THEN <<"<div class=term-item>", "<div class=term-label>">> \o term.label
             \o <<"</div>", "<div class=term-value>">> \o term.value
             \o <<"</div>", "<div class=term-rationale>">> \o ticket_rationale
             \o <<"</div>", "</div term-item>">>
    ELSE <<"<div class=term-item>", "<div class=term-label>">> \o term.label
             \o <<"</div>", "<div class=term-value>">> \o term.value
             \o <<"</div>", "</div term-item>">>

\* a terms block shown whatever the verdict is
ShowsTermsAnyVerdict(verdict, terms) == terms # <<>>

\* 'if verdict == 'PURSUE' and sections['terms']'
ShowsTerms(verdict, terms) == verdict = <<"PURSUE">> /\ terms # <<>>

TERMS_OPEN == "<div class=section><h2>Proposed Terms</h2><div class=terms-grid>"

TermsHtml(verdict, terms) ==
    IF ShowsTerms(verdict, terms)
    THEN <<TERMS_OPEN>>
             \o Cat([k \in 1..Len(terms) |-> TermItem(terms[k], TicketRationale(terms))])
             \o <<"</div></div>">>
    ELSE <<>>

RisksHtml(risks, info_gaps) ==
    <<"<ul class=risk-list>">>
        \o Cat([k \in 1..Len(risks) |->
                <<"<li>", "<span class=risk-title>">> \o risks[k].title \o <<":</span> ">>
                    \o risks[k].description \o <<"</li>">>])
        \o <<"</ul>">>
        \o (IF info_gaps # <<>>
            THEN <<"<div class=info-gaps>", "<div class=info-gaps-title>Information Gaps</div>">>
                     \o info_gaps \o <<"</div>">>
            ELSE <<>>)

DdHtml(priorities) ==
    <<"<ul class=dd-list>">>
        \o Cat([k \in 1..Len(priorities) |-> <<"<li>">> \o priorities[k] \o <<"</li>">>])
        \o <<"</ul>">>

\* sections['bottom_line'].replace('<p>', '').replace('</p>', '')
Unwrap(s) ==
    LET a == Replace(Replace(s, <<"<p>">>, <<>>), <<"<", "p", ">">>, <<>>)
    IN  Replace(Replace(a, <<"</p>">>, <<>>), <<"<", "/", "p", ">">>, <<>>)

APPENDIX_START == "<!-- ANALYST_APPENDIX_START -->"
APPENDIX_END == "<!-- ANALYST_APPENDIX_END -->"

\* re.sub(r'<!-- ANALYST_APPENDIX_START -->.*?<!-- ANALYST_APPENDIX_END -->', '', html,
\*        flags=re.DOTALL)
RECURSIVE SubAppendix(_)
SubAppendix(s) ==
    LET a == Find(s, <<APPENDIX_START>>, 1)
        e == IF a = 0 THEN 0 ELSE Find(s, <<APPENDIX_END>>, a + 1)
    IN  IF e = 0 THEN s
        ELSE SubSeq(s, 1, a - 1) \o SubAppendix(From(s, e + 1))

\* html = html.replace(placeholder, value), for each <<placeholder, value>> in turn
RECURSIVE ReplaceEach(_, _)
ReplaceEach(h, subs) ==
    IF subs = <<>> \/ h = <<>> THEN h
    ELSE ReplaceEach(Replace(h, <<Head(subs)[1]>>, Head(subs)[2]), Tail(subs))

\* a last step that leaves the appendix of the template in place when the analyst
\* texts are absent
AnalystStepKeep(h, bull, bear, delib) ==
    IF bull # <<>> /\ bear # <<>>
    THEN ReplaceEach(h,
             <<<<"{{BULL_ANALYST}}", markdown_to_simple_html(bull)>>,
               <<"{{BEAR_ANALYST}}", markdown_to_simple_html(bear)>>,
               <<"{{DELIBERATION}}",
                 IF delib # <<>> THEN markdown_to_simple_html(delib) ELSE <<>>>>,
               <<"{{ANALYST_SECTIONS}}", <<>>>>>>)
    ELSE h

\* a last step that fills the appendix as soon as the bull text is present
AnalystStepBullOnly(h, bull, bear, delib) ==
    IF bull # <<>>
    THEN ReplaceEach(h,
             <<<<"{{BULL_ANALYST}}", markdown_to_simple_html(bull)>>,
               <<"{{BEAR_ANALYST}}", markdown_to_simple_html(bear)>>,
               <<"{{DELIBERATION}}",
                 IF delib # <<>> THEN markdown_to_simple_html(delib) ELSE <<>>>>,
               <<"{{ANALYST_SECTIONS}}", <<>>>>>>)
    ELSE SubAppendix(h)

\* the last step of generate_html: the analyst appendix
AnalystStep(h, bull, bear, delib) ==
    IF bull # <<>> /\ bear # <<>>
    THEN ReplaceEach(h,
             <<<<"{{BULL_ANALYST}}", markdown_to_simple_html(bull)>>,
               <<"{{BEAR_ANALYST}}", markdown_to_simple_html(bear)>>,
               <<"{{DELIBERATION}}",
                 IF delib # <<>> THEN markdown_to_simple_html(delib) ELSE <<>>>>,
               <<"{{ANALYST_SECTIONS}}", <<>>>>>>)
    ELSE SubAppendix(h)

\* generate_html raises (the IndexError of the rating class of a fit row)
GenerateRaises(secs) ==
    \E k \in 1..Len(secs.fit_table) : RatingClassRaises(secs.fit_table[k].rating)

\* the replacements of generate_html before the analyst appendix, in the order of the code
Substitutions(secs, source, date_str) ==
    <<<<"{{COMPANY_NAME}}", secs.company_name>>,
      <<"{{DATE}}", IF date_str # <<>> THEN date_str ELSE Today>>,
      <<"{{SOURCE}}", source>>,
      <<"{{OPPORTUNITY}}", secs.opportunity>>,
      <<"{{MARKET}}", secs.market>>,
      <<"{{COMPETITION}}", secs.competition>>,
      <<"{{TEAM}}", secs.team>>,
      <<"{{INVESTORS}}", IF secs.investors # <<>> THEN secs.investors
                         ELSE <<"<p>No prior investor information found.</p>">>>>,
      <<"{{SNAPSHOT}}", SnapshotHtml(secs.snapshot)>>,
      <<"{{FIT_TABLE}}", FitHtml(secs.fit_table, secs.overall_fit)>>,
      <<"{{BULL_CASE}}", CaseHtml(secs.bull_case, "<ul class=case-list bull>")>>,
      <<"{{BEAR_CASE}}", CaseHtml(secs.bear_case, "<ul class=case-list bear>")>>,
      <<"{{KEY_DEBATES}}", DebatesHtml(secs.key_debates)>>,
      <<"{{VERDICT}}", secs.verdict>>,
      <<"{{VERDICT_CLASS}}", LowerS(secs.verdict)>>,
      <<"{{CONFIDENCE}}", secs.confidence>>,
      <<"{{CONFIDENCE_CLASS}}", LowerS(secs.confidence)>>,
      <<"{{VERDICT_RATIONALE}}", secs.verdict_rationale>>,
      <<"{{TERMS_SECTION}}", TermsHtml(secs.verdict, secs.terms)>>,
      <<"{{RISKS}}", RisksHtml(secs.risks, secs.info_gaps)>>,
      <<"{{DD_PRIORITIES}}", DdHtml(secs.dd_priorities)>>,
      <<"{{BOTTOM_LINE}}", Unwrap(secs.bottom_line)>>>>

\* the string generate_html returns when it does not raise
generate_html(secs, tpl, source, date_str, bull, bear, delib) ==
    AnalystStep(ReplaceEach(tpl, Substitutions(secs, source, date_str)), bull, bear, delib)

\* the source named in the sample run of the module; date_str is left at its default
SOURCE == <<"acme_deck", ".", "pdf">>

\* the auxiliary analyst texts generate_html is called with: <<bull, bear, deliberation>>
ANALYST_TEXT == <<"#", " ", "h", NL, "-", " ", "x", NL, NL, "*", "*", "b", "*", "*", " ", "<", "z", ">">>

AnalystInputs ==
    {<<<<>>, <<>>, <<>>>>, <<ANALYST_TEXT, <<>>, ANALYST_TEXT>>,
     <<ANALYST_TEXT, <<" ">>, <<>>>>, <<ANALYST_TEXT, ANALYST_TEXT, ANALYST_TEXT>>}

\* generate_html(sections, ...) with the template file as it is
GenerateHtml ==
    /\ pc = "parsed"
    /\ \E aux \in AnalystInputs :
           /\ bull_case' = aux[1]
           /\ bear_case' = aux[2]
           /\ deliberation' = aux[3]
           /\ IF GenerateRaises(sections)
              THEN raised' = TRUE /\ html' = html
              ELSE /\ raised' = FALSE
                   /\ html' = generate_html(sections, template, SOURCE, None,
                                            aux[1], aux[2], aux[3])
    /\ pc' = "done"
    /\ UNCHANGED screening
    /\ UNCHANGED <<lines, idx, sections, current_section, current_content, template,
                   arg, ret>>

(***************************************************************************)
(* memo_template.html: the template contract (the file is not in src/).    *)
(* Every placeholder once, and the two markers around the analyst appendix.*)
(***************************************************************************)
FULL_TEMPLATE ==
    <<"{{COMPANY_NAME}}", NL, "{{SNAPSHOT}}", NL, "{{FIT_TABLE}}", NL, "{{BULL_CASE}}", NL,
      "{{BEAR_CASE}}", NL, "{{KEY_DEBATES}}", NL, "{{VERDICT}}", NL, "{{VERDICT_CLASS}}", NL,
      "{{CONFIDENCE}}", NL, "{{CONFIDENCE_CLASS}}", NL, "{{VERDICT_RATIONALE}}", NL,
      "{{TERMS_SECTION}}", NL, "{{RISKS}}", NL, "{{DD_PRIORITIES}}", NL, "{{BOTTOM_LINE}}", NL,
      "{{OPPORTUNITY}}", NL, "{{MARKET}}", NL, "{{COMPETITION}}", NL, "{{TEAM}}", NL,
      "{{INVESTORS}}", NL, "{{DATE}}", NL, "{{SOURCE}}", NL,
      APPENDIX_START, "{{ANALYST_SECTIONS}}", "{{BULL_ANALYST}}", NL, "{{BEAR_ANALYST}}", NL,
      "{{DELIBERATION}}", APPENDIX_END>>

\* a template text that keeps no contract: placeholders twice, the markers reversed
ODD_TEMPLATE ==
    <<"{{TERMS_SECTION}}", "{{FIT_TABLE}}", APPENDIX_END, "{{FIT_TABLE}}", APPENDIX_START,
      "{{BULL_ANALYST}}", "{", "{", "[", "*", "*">>

Templates == {<<>>, FULL_TEMPLATE, ODD_TEMPLATE}

(***************************************************************************)
(* Runs.  The state after construction is Idle; a run of one function      *)
(* takes its argument in arg and leaves what it returns in ret.            *)
(***************************************************************************)
\* all sequences of at most n elements of S
SeqsUpTo(S, n) == UNION {[1..k -> S] : k \in 0..n}

\* no screening run is under way and nobody has opened the web form
\* a Python value with its type, where the type is not always str
PyStr(s) == [type |-> "str", value |-> s]
PyDict(s) == [type |-> "dict", value |-> s]
PyNone == [type |-> "NoneType", value |-> <<>>]
Unbound == [type |-> "unbound", value |-> <<>>]

\* str(v) as an f-string puts it into a text
Format(v) == IF v.type = "NoneType" THEN <<"None">> ELSE v.value

NoRun ==
    [app |-> "", no_research |-> FALSE, keys |-> {}, deck_content |-> <<>>,
     company_info |-> Unbound, ch_research |-> Unbound, investor_research |-> Unbound,
     perplexity_research |-> Unbound, research_text |-> <<>>, synthesis_prompt |-> <<>>,
     memo_text |-> <<>>]

NoScreening == calls = <<>> /\ main_locals = NoRun /\ session_state = <<>>

\* the locals of the memo functions before anything ran
MemoIdle ==
    /\ idx = 1
    /\ current_section = None
    /\ current_content = <<>>
    /\ bull_case = <<>>
    /\ bear_case = <<>>
    /\ deliberation = <<>>
    /\ html = <<>>
    /\ raised = FALSE
    /\ ret = <<>>

Idle == MemoIdle /\ NoScreening

\* no document, no memo and no template: a run of one function needs none
NoMemo == lines = <<>> /\ sections = EmptySections /\ template = <<>>

(***************************************************************************)
(* parse_fit_table on its own                                              *)
(***************************************************************************)
MaxFitLines == 3

FIT_HEADER == <<"|", " ", "Criterion", " ", "|", " ", "Rating", " ", "|", " ", "Assessment", " ", "|">>
FIT_SEPARATOR == <<"|", "-", "-", "-", "|", "-", "-", "-", "|", "-", "-", "-", "|">>
FIT_ROW == <<"|", " ", "Food", " ", "System", " ", "Impact", " ", "|", " ", "Strong", " ", "|",
             " ", "Direct", " ", "impact", " ", "|">>

FitLines ==
    {FIT_HEADER, FIT_SEPARATOR, FIT_ROW,
     <<" ", "|", "a", "|", "weak", " ", "b", "|", " ", "c", " ", "|", "d", "|">>,
     <<"|", " ", "criterion", " ", "|", " ", "x", " ", "|", " ", "y", " ", "|">>,
     <<"|", " ", "|", " ", "x", " ", "|", " ", "y", " ", "|">>,
     <<"|", " ", "a", " ", "|", " ", "b", " ", "|">>,
     <<"|", " ", "a", " ", "|", " ", "b", " ", "|", " ", "c">>,
     <<"a", " ", "|", " ", "b", " ", "|", " ", "c", " ", "|", " ", "d">>}

FitTexts == {Join(ls, <<NL>>) : ls \in SeqsUpTo(FitLines, MaxFitLines)}

InitFit == Idle /\ NoMemo /\ pc = "call" /\ arg \in FitTexts

CallParseFitTable ==
    /\ pc = "call"
    /\ ret' = parse_fit_table(arg)
    /\ pc' = "done"
    /\ UNCHANGED screening
    /\ UNCHANGED <<lines, idx, sections, current_section, current_content, template,
                   bull_case, bear_case, deliberation, html, raised, arg>>

NextFit == CallParseFitTable

SpecFit == InitFit /\ [][NextFit]_vars

\* the trimmed cells between the first and the last pipe of a line
C4_Cells(line) ==
    LET parts == Split(Strip(line), <<"|">>)
    IN  [k \in 1..(Len(parts) - 2) |-> Strip(parts[k + 1])]

\* a candidate row: the trimmed line starts with a pipe, holds no '---', and has at
\* least 3 cells of which the first is not empty
C4_Candidate(line) ==
    /\ StartsWith(Strip(line), <<"|">>)
    /\ ~Contains(line, <<"-", "-", "-">>)
    /\ Len(C4_Cells(line)) >= 3
    /\ C4_Cells(line)[1] # <<>>

C4_RowOf(line) ==
    [criterion |-> C4_Cells(line)[1], rating |-> C4_Cells(line)[2],
     assessment |-> C4_Cells(line)[3]]

C4_RowsOf(ls) == [k \in 1..Len(ls) |-> C4_RowOf(ls[k])]

\* C4 (as amended): parse_fit_table returns, in the order of the lines, exactly one
\* row {criterion, rating, assessment} (the first three trimmed cells) for every
\* candidate row whose first cell is not the word "criterion" in any letter case,
\* and no row for any other line (the header line and the separator line among them).
C4_FitRows ==
    pc = "done" =>
        ret[1] = C4_RowsOf(SelectSeq(Split(arg, <<NL>>),
                     LAMBDA l : C4_Candidate(l) /\ LowerS(C4_Cells(l)[1]) # <<"criterion">>))

\* C4 as stated: the only first cell that is refused is the header word "Criterion".
C4_AsStated ==
    pc = "done" =>
        ret[1] = C4_RowsOf(SelectSeq(Split(arg, <<NL>>),
                     LAMBDA l : C4_Candidate(l) /\ C4_Cells(l)[1] # <<"Criterion">>))

\* the example of C4: header, separator and one row give the one row
C4_Witness ==
    /\ pc = "done"
    /\ arg = FIT_HEADER \o <<NL>> \o FIT_SEPARATOR \o <<NL>> \o FIT_ROW
    /\ ret[1] = <<[criterion |-> <<"Food", " ", "System", " ", "Impact">>,
                   rating |-> <<"Strong">>,
                   assessment |-> <<"Direct", " ", "impact">>]>>

(***************************************************************************)
(* parse_bullet_points on its own                                          *)
(***************************************************************************)
MaxBulletLines == 2

BULLET_TITLED == <<"-", " ", "*", "*", "Regulatory", " ", "Risk", "*", "*", " ", "-", " ",
                   "approval", " ", "pending">>
BULLET_PLAIN == <<"-", " ", "just", " ", "a", " ", "note">>

BULLET_COLON_INSIDE == <<"-", " ", "*", "*", "Title", ":", "*", "*", " ", "desc">>
BULLET_DASH_AFTER == <<"-", " ", "*", "*", "Title", "*", "*", " ", "-", " ", "desc">>

BulletLines ==
    {BULLET_TITLED, BULLET_PLAIN, BULLET_COLON_INSIDE,
     <<"*", " ", "*", "*", "a", ":", ":", "*", "*", " ", ":", " ", "b">>,
     <<"-", " ", "*", "*", "a", "*", "*", " ", "b", " ", "*", "*", "c", "*", "*", " ", "-", " ", "d">>,
     <<"-", " ", "*", "*", "a", "*", "*", " ", "-", "-">>,
     <<"-", " ", "*", "*", "a", "*", "*", " ", "b">>,
     <<"-", " ", " ", "*", "*", "a", "*", "*", " ", "-", " ", "b">>,
     <<"just", " ", "text">>,
     <<" ", " ", "*", " ", "*", "*", "a", "*", "*", "-", " ", " ", "b">>}

BulletTexts == {Join(ls, <<NL>>) : ls \in SeqsUpTo(BulletLines, MaxBulletLines)}

InitBullets == Idle /\ NoMemo /\ pc = "call" /\ arg \in BulletTexts

CallParseBulletPoints ==
    /\ pc = "call"
    /\ ret' = parse_bullet_points(arg)
    /\ pc' = "done"
    /\ UNCHANGED screening
    /\ UNCHANGED <<lines, idx, sections, current_section, current_content, template,
                   bull_case, bear_case, deliberation, html, raised, arg>>

NextBullets == CallParseBulletPoints

SpecBullets == InitBullets /\ [][NextBullets]_vars

\* the descriptions of r read as **TITLE** <dash-or-colon> description, the bold
\* text closed at c: what follows blanks, dashes or colons, and blanks again
C7_Descriptions(r, c) ==
    {From(r, k) : k \in {k \in (c + 3)..Len(r) :
        \E i \in (c + 2)..(k - 1) : \E j \in i..(k - 1) :
            /\ \A n \in (c + 2)..(i - 1) : IsSpace(r[n])
            /\ \A n \in i..j : r[n] \in {"-", ":"}
            /\ \A n \in (j + 1)..(k - 1) : IsSpace(r[n])}}

\* the ways to read r as **TITLE** <dash-or-colon> description: <<TITLE, description>>
\* with TITLE and description not empty
C7_Forms(r) ==
    IF ~At(r, <<"*", "*">>, 1) THEN {}
    ELSE UNION {{<<SubSeq(r, 3, c - 1), d>> : d \in C7_Descriptions(r, c)} :
                    c \in {c \in 4..Len(r) : At(r, <<"*", "*">>, c)}}

\* t without its trailing colons
C7_Title(t) ==
    CHOOSE p \in {SubSeq(t, 1, n) : n \in 0..Len(t)} :
        /\ p = <<>> \/ p[Len(p)] # ":"
        /\ \A n \in (Len(p) + 1)..Len(t) : t[n] = ":"

\* the entry the claim gives the text r that follows a bullet marker; of several
\* readings the one with the shortest TITLE, then the shortest description
C7_Entry(r) ==
    IF C7_Forms(r) = {} THEN [title |-> <<>>, description |-> r]
    ELSE LET f == CHOOSE f \in C7_Forms(r) :
                      \A g \in C7_Forms(r) :
                          \/ Len(f[1]) < Len(g[1])
                          \/ Len(f[1]) = Len(g[1]) /\ Len(f[2]) <= Len(g[2])
         IN  [title |-> C7_Title(f[1]), description |-> f[2]]

\* C7: parse_bullet_points returns one entry per bullet line (a trimmed line that
\* starts with '- ' or '* '), in the order of the lines: {title: TITLE without its
\* trailing colons, description} when the text after the marker reads
\* **TITLE** <dash-or-colon> description, and {title: '', description: all of that
\* text} when it does not.
C7_BulletEntries ==
    pc = "done" =>
        LET ls == Split(arg, <<NL>>)
            bl == SelectSeq([k \in 1..Len(ls) |-> Strip(ls[k])],
                            LAMBDA l : StartsWith(l, <<"-", " ">>) \/ StartsWith(l, <<"*", " ">>))
        IN  ret = [k \in 1..Len(bl) |-> C7_Entry(From(bl[k], 3))]

\* the two examples of C7, one after the other
C7_Witness ==
    /\ pc = "done"
    /\ arg = BULLET_TITLED \o <<NL>> \o BULLET_PLAIN
    /\ ret = <<[title |-> <<"Regulatory", " ", "Risk">>,
                description |-> <<"approval", " ", "pending">>],
               [title |-> <<>>, description |-> <<"just", " ", "a", " ", "note">>]>>

(***************************************************************************)
(* markdown_to_html on its own: texts of words and links                   *)
(***************************************************************************)
MaxPieces == 3

URL == <<"https", ":", "/", "/", "x", ".", "com">>
LINK_THIS == <<"[", "this", "]", "(">> \o URL \o <<")">>
LINK_NO_LABEL_BLANK == <<"[", "]", "(", " ", ")">>
LINK_NO_TARGET == <<"[", "nothing", "]", "(", ")">>

\* the example text: See [this](https://x.com) and []( ) and [nothing]().
LINKS_EXAMPLE ==
    <<"See", " ">> \o LINK_THIS \o <<" ", "and", " ">> \o LINK_NO_LABEL_BLANK
        \o <<" ", "and", " ">> \o LINK_NO_TARGET \o <<".">>

LinkPieces ==
    {<<"See", " ">>, <<" ", "and", " ">>, <<".">>,
     LINK_THIS, LINK_NO_LABEL_BLANK, LINK_NO_TARGET,
     <<"[", "]", "(", "u", ")">>,
     <<"[", "a", " ", "b", "]", "(", "u", ")">>}

LinkTexts == {LINKS_EXAMPLE} \cup {Cat(ps) : ps \in SeqsUpTo(LinkPieces, MaxPieces)}

InitMd == Idle /\ NoMemo /\ pc = "call" /\ arg \in LinkTexts

CallMarkdownToHtml ==
    /\ pc = "call"
    /\ \E preserve_breaks \in BOOLEAN : ret' = markdown_to_html(arg, preserve_breaks)
    /\ pc' = "done"
    /\ UNCHANGED screening
    /\ UNCHANGED <<lines, idx, sections, current_section, current_content, template,
                   bull_case, bear_case, deliberation, html, raised, arg>>

NextMd == CallMarkdownToHtml

SpecMd == InitMd /\ [][NextMd]_vars

\* the links [label](target) of a text, in order: <<label, target>>
RECURSIVE C8_Links(_)
C8_Links(s) ==
    IF s = <<>> THEN <<>>
    ELSE LET rb == Find(s, <<"]">>, 2)
             close == IF rb = 0 THEN 0 ELSE Find(s, <<")">>, rb + 2)
         IN  IF Head(s) = "[" /\ rb # 0 /\ At(s, <<"]", "(">>, rb) /\ close # 0
             THEN <<<<SubSeq(s, 2, rb - 1), SubSeq(s, rb + 2, close - 1)>>>>
                      \o C8_Links(From(s, close + 1))
             ELSE C8_Links(Tail(s))

\* the anchor of a link
C8_Anchor(link) == <<A_OPEN>> \o link[2] \o <<A_MID>> \o link[1] \o <<A_CLOSE>>

\* the tokens that anchors and links are made of
C8_LinkTokens ==
    {A_OPEN, A_MID, A_CLOSE, "this", "nothing", "a", "b", "u", "https", "x", "com",
     "[", "]", "(", ")"}

\* C8: for a text of words and links, the output of markdown_to_html holds exactly
\* one anchor per link whose label and target are both not empty, in the order of
\* the text, and nothing of the links with an empty label or an empty target: no
\* bracket, no parenthesis, no label and no target of theirs.
C8_EmptyLinksStripped ==
    pc = "done" =>
        LET good == SelectSeq(C8_Links(arg), LAMBDA l : l[1] # <<>> /\ l[2] # <<>>)
        IN  /\ \A n \in 1..Len(ret) : ret[n] \notin {"[", "]", "(", ")"}
            /\ SelectSeq(ret, LAMBDA t : t \in C8_LinkTokens)
                   = Cat([k \in 1..Len(good) |->
                             SelectSeq(C8_Anchor(good[k]), LAMBDA t : t \in C8_LinkTokens)])

\* the example of C8 renders one anchor, for "this"
C8_Witness ==
    /\ pc = "done"
    /\ arg = LINKS_EXAMPLE
    /\ ret = <<"<p>", "See", " ", A_OPEN>> \o URL \o <<A_MID, "this", A_CLOSE>>
                 \o <<" ", "and", " ", " ", "and", " ", ".", "</p>">>

(***************************************************************************)
(* save_section on the content of a TEAM section                           *)
(***************************************************************************)
MaxTeamLines == 3

TeamLines ==
    {<<"Ana">>, <<"CEO", " ", "of", " ", "Acme">>, <<>>, <<" ">>,
     <<" ", "Bo", " ">>, <<"-", " ", "x">>}

\* save_section is called with at least one line of content
TeamContents == SeqsUpTo(TeamLines, MaxTeamLines) \ {<<>>}

InitTeam == Idle /\ NoMemo /\ pc = "call" /\ arg \in TeamContents

CallSaveSection ==
    /\ pc = "call"
    /\ \E name \in {<<"TEAM">>, <<"FOUNDING", " ", "TEAM">>} :
           ret' = save_section(EmptySections, name, arg)
    /\ pc' = "done"
    /\ UNCHANGED screening
    /\ UNCHANGED <<lines, idx, sections, current_section, current_content, template,
                   bull_case, bear_case, deliberation, html, raised, arg>>

NextTeam == CallSaveSection

SpecTeam == InitTeam /\ [][NextTeam]_vars

\* the lines of a text in groups, a new group after every empty line
RECURSIVE C9_Groups(_, _)
C9_Groups(ls, group) ==
    IF ls = <<>> THEN <<group>>
    ELSE IF Head(ls) = <<>> THEN <<group>> \o C9_Groups(Tail(ls), <<>>)
    ELSE C9_Groups(Tail(ls), Append(group, Head(ls)))

\* the non-blank lines of a group, trimmed
C9_NonBlank(group) ==
    LET kept == SelectSeq(group, LAMBDA l : Strip(l) # <<>>)
    IN  [k \in 1..Len(kept) |-> Strip(kept[k])]

\* the group is a paragraph that does not start with a bullet marker
C9_IsProse(group) ==
    /\ C9_NonBlank(group) # <<>>
    /\ ~StartsWith(Strip(Join(group, <<NL>>)), <<"-", " ">>)
    /\ ~StartsWith(Strip(Join(group, <<NL>>)), <<"*", " ">>)

\* the <p> elements of a text, in order
RECURSIVE C9_PElements(_)
C9_PElements(h) ==
    LET a == Find(h, <<"<p>">>, 1)
        e == IF a = 0 THEN 0 ELSE Find(h, <<"</p>">>, a)
    IN  IF a = 0 THEN <<>>
        ELSE IF e = 0 THEN <<From(h, a)>>
        ELSE <<SubSeq(h, a, e)>> \o C9_PElements(From(h, e + 1))

\* C9: the team field of a TEAM section holds exactly one <p> element for every
\* paragraph (lines between empty lines) that does not start with a bullet marker,
\* in order, and in it the non-blank lines of the paragraph, trimmed, are joined
\* by <br> and a newline; two non-blank lines with one newline between them give
\* one <p> with one <br>.
C9_TeamBreaks ==
    pc = "done" =>
        LET prose == SelectSeq(C9_Groups(arg, <<>>), C9_IsProse)
        IN  C9_PElements(ret.team)
                = [k \in 1..Len(prose) |->
                      <<"<p>">> \o Join(C9_NonBlank(prose[k]), <<"<br>", NL>>) \o <<"</p>">>]

\* two non-blank lines with a single newline between them: one <p>, one <br>
C9_Witness ==
    /\ pc = "done"
    /\ arg = <<<<"Ana">>, <<"CEO", " ", "of", " ", "Acme">>>>
    /\ ret.team = <<"<p>", "Ana", "<br>", NL, "CEO", " ", "of", " ", "Acme", "</p>">>

(***************************************************************************)
(* parse_analysis on documents of title lines, headings and verdict lines  *)
(***************************************************************************)
MaxLines == 4

H_RECOMMENDATION == <<"#", "#", "#", " ", "RECOMMENDATION">>

VerdictDocLines ==
    {<<"#", " ", "PASS">>, <<"#", " ", "PURSUE">>, <<"#", " ", "MONITOR">>,
     <<"#", " ", "Acme">>, H_RECOMMENDATION, <<"#", "#", "#", " ", "TEAM">>,
     <<"MONITOR">>, <<"Strong", " ", "team">>}

VerdictDocs == {Join(ls, <<NL>>) : ls \in SeqsUpTo(VerdictDocLines, MaxLines)}

\* parse_analysis(analysis) at its first line: lines = analysis.split('\n')
InitParse ==
    /\ Idle /\ sections = EmptySections /\ template = <<>>
    /\ pc = "parse" /\ arg \in VerdictDocs /\ lines = Split(arg, <<NL>>)

NextParse == ParseLine \/ ParseReturn

SpecParse == InitParse /\ [][NextParse]_vars

\* the document's line l, trimmed, is a title line that names the verdict v
DocTitleNames(l, v) ==
    LET t == Strip(l)
    IN  /\ Len(t) >= 3 /\ t[1] = "#" /\ t[2] = " "
        /\ UpperS(Strip(SelectSeq(From(t, 3), LAMBDA x : x # "*"))) = <<v>>

DocIsTitle(l) == LET t == Strip(l) IN Len(t) >= 2 /\ t[1] = "#" /\ t[2] = " "

DocIsHeading(l) == StartsWith(Strip(l), <<"#", "#", "#", " ">>)

\* the heading opens a RECOMMENDATION section
DocIsRecHeading(l) == DocIsHeading(l) /\ Category(UpperS(Strip(From(Strip(l), 5)))) = "recommendation"

\* the verdict named by the last title line that names one, '' when there is none
DocTitleVerdict(ls) ==
    LET at == {n \in 1..Len(ls) : \E v \in VerdictWords : DocTitleNames(ls[n], v)}
        last == CHOOSE n \in at : \A m \in at : m <= n
    IN  IF at = {} THEN <<>>
        ELSE <<CHOOSE v \in VerdictWords : DocTitleNames(ls[last], v)>>

\* line n of the document lies in the body of the section that heading h opens
DocInBody(ls, h, n) ==
    /\ h < n /\ n <= Len(ls)
    /\ \A m \in (h + 1)..n : ~DocIsHeading(ls[m])

\* the text of the section that heading h opens: its lines without the title lines,
\* the level-2 headings and the rules, joined and trimmed
DocSectionText(ls, h) ==
    LET body == {n \in 1..Len(ls) :
                    /\ DocInBody(ls, h, n)
                    /\ ~DocIsTitle(ls[n])
                    /\ ~StartsWith(Strip(ls[n]), <<"#", "#", " ">>)
                    /\ Strip(ls[n]) # <<"-", "-", "-">>}
        kept == SelectSeq([n \in 1..Len(ls) |-> IF n \in body THEN <<ls[n]>> ELSE <<>>],
                          LAMBDA x : x # <<>>)
    IN  Strip(Join([k \in 1..Len(kept) |-> kept[k][1]], <<NL>>))

\* the verdict that the last RECOMMENDATION section yielding one yields, '' when
\* none does
DocRecVerdict(ls) ==
    LET at == {h \in 1..Len(ls) :
                  DocIsRecHeading(ls[h]) /\ parse_verdict(DocSectionText(ls, h)).verdict # <<>>}
        last == CHOOSE h \in at : \A m \in at : m <= h
    IN  IF at = {} THEN <<>> ELSE parse_verdict(DocSectionText(ls, last)).verdict

\* C2 as stated: when a RECOMMENDATION section yields a verdict the final verdict is
\* that value, wherever a title line naming a verdict stands; when none does it is
\* the value of the title line; when neither exists it is ''.
C2_AsStated ==
    pc = "parsed" =>
        sections.verdict = IF DocRecVerdict(lines) # <<>> THEN DocRecVerdict(lines)
                           ELSE DocTitleVerdict(lines)

\* a RECOMMENDATION section yields MONITOR, a later section begins, a title line
\* after it names PASS: the final verdict is PASS
C2_Witness ==
    /\ pc = "parsed"
    /\ lines = <<H_RECOMMENDATION, <<"MONITOR">>, <<"#", "#", "#", " ", "TEAM">>,
                 <<"#", " ", "PASS">>>>
    /\ DocRecVerdict(lines) = <<"MONITOR">>
    /\ sections.verdict = <<"PASS">>

\* the document's line l names a verdict: a title line that names one, or a line
\* that is the bare verdict word
DocNamesVerdict(l) ==
    \/ \E v \in VerdictWords : DocTitleNames(l, v)
    \/ \E v \in VerdictWords : Strip(l) = <<v>>

\* line t is the title line '# v1', line b is the line '# v2' in the body of the
\* RECOMMENDATION section that heading h opens, and the title stands before it
C3_Shape(ls, t, h, b, v1, v2) ==
    /\ t < h /\ h < b
    /\ Strip(ls[t]) = <<"#", " ", v1>>
    /\ DocIsRecHeading(ls[h])
    /\ DocInBody(ls, h, b)
    /\ Strip(ls[b]) = <<"#", " ", v2>>

SectionDocLines ==
    {<<"#", " ", "Acme">>, <<"#", " ", "PASS">>, H_RECOMMENDATION, <<"PURSUE">>,
     <<"#", "#", "#", " ", "MARKET", " ", "FIT">>, <<"#", "#", "#", " ", "APPENDIX">>,
     <<"#", "#", "#", " ", "RISKS">>,
     <<"|", " ", "a", " ", "|", " ", "strong", " ", "|", " ", "b", " ", "|">>}

SectionDocs == {Join(ls, <<NL>>) : ls \in SeqsUpTo(SectionDocLines, MaxLines)}

InitSections ==
    /\ Idle /\ sections = EmptySections /\ template = <<>>
    /\ pc = "parse" /\ arg \in SectionDocs /\ lines = Split(arg, <<NL>>)

SpecSections == InitSections /\ [][NextParse]_vars

\* a level-3 heading of the document opens a section of category c
DocHasCategory(ls, c) ==
    \E n \in 1..Len(ls) :
        DocIsHeading(ls[n]) /\ Category(UpperS(Strip(From(Strip(ls[n]), 5)))) = c

\* every field of a category without a heading in the document holds its default
C10_AbsentSectionsDefault ==
    /\ ~DocHasCategory(lines, "opportunity") => sections.opportunity = <<>>
    /\ ~DocHasCategory(lines, "snapshot") => sections.snapshot = <<>>
    /\ ~DocHasCategory(lines, "market") => sections.market = <<>>
    /\ ~DocHasCategory(lines, "competition") => sections.competition = <<>>
    /\ ~DocHasCategory(lines, "team") => sections.team = <<>>
    /\ ~DocHasCategory(lines, "investors") => sections.investors = <<>>
    /\ ~DocHasCategory(lines, "fit")
           => sections.fit_table = <<>> /\ sections.overall_fit = <<>>
    /\ ~DocHasCategory(lines, "bull") => sections.bull_case = <<>>
    /\ ~DocHasCategory(lines, "bear") => sections.bear_case = <<>>
    /\ ~DocHasCategory(lines, "debates") => sections.key_debates = <<>>
    /\ ~DocHasCategory(lines, "recommendation")
           => sections.verdict_rationale = <<>> /\ sections.confidence = <<>>
    /\ ~DocHasCategory(lines, "terms") => sections.terms = <<>>
    /\ ~DocHasCategory(lines, "risks")
           => sections.risks = <<>> /\ sections.info_gaps = <<>>
    /\ ~DocHasCategory(lines, "dd") => sections.dd_priorities = <<>>
    /\ ~DocHasCategory(lines, "bottom") => sections.bottom_line = <<>>

\* a document without a level-3 heading leaves every section-derived field at its
\* default
C10_NoHeadingDefault ==
    (\A n \in 1..Len(lines) : ~DocIsHeading(lines[n]))
        => [sections EXCEPT !.company_name = <<>>, !.verdict = <<>>] = EmptySections

\* C10 (as amended): after parse_analysis every field whose section category does
\* not occur in the document holds its empty default; company_name is empty when
\* there is no title line; verdict is empty when no title line names a verdict and
\* there is no RECOMMENDATION section; and a document with no level-3 heading
\* leaves every section-derived field at its default.
C10_Defaults ==
    pc = "parsed" =>
        /\ C10_AbsentSectionsDefault
        /\ (\A n \in 1..Len(lines) : ~DocIsTitle(lines[n])) => sections.company_name = <<>>
        /\ (/\ \A n \in 1..Len(lines) : ~\E v \in VerdictWords : DocTitleNames(lines[n], v)
            /\ ~DocHasCategory(lines, "recommendation")) => sections.verdict = <<>>
        /\ C10_NoHeadingDefault

\* C10 as stated: company_name and verdict are both empty when there is no title line.
C10_AsStated ==
    pc = "parsed" =>
        /\ C10_AbsentSectionsDefault
        /\ (\A n \in 1..Len(lines) : ~DocIsTitle(lines[n]))
               => sections.company_name = <<>> /\ sections.verdict = <<>>
        /\ C10_NoHeadingDefault

\* a document without a title line, with a MARKET FIT section (classified as
\* market) that holds a table row: market is set, the fit fields and the others
\* keep their defaults
C10_Witness ==
    /\ pc = "parsed"
    /\ lines = <<<<"#", "#", "#", " ", "MARKET", " ", "FIT">>,
                 <<"|", " ", "a", " ", "|", " ", "strong", " ", "|", " ", "b", " ", "|">>>>
    /\ sections.market # <<>>
    /\ [sections EXCEPT !.market = <<>>] = EmptySections

(***************************************************************************)
(* generate_html on memos with a verdict and a list of terms               *)
(***************************************************************************)
MaxTerms == 3

TERM_SIZE == [label |-> <<"Ticket", " ", "Size">>, value |-> <<"500k">>]
TERM_RATIONALE == [label |-> <<"Ticket", " ", "Rationale">>, value |-> <<"early">>]
TERM_VALUATION == [label |-> <<"Valuation", " ", "View">>, value |-> <<"fair">>]

TermPool ==
    {TERM_SIZE, TERM_RATIONALE, TERM_VALUATION,
     [label |-> <<"Rationale">>, value |-> <<"why">>]}

TermsMemos ==
    {[EmptySections EXCEPT !.verdict = v, !.terms = t] :
        v \in {<<>>, <<"PURSUE">>, <<"PASS">>, <<"MONITOR">>},
        t \in SeqsUpTo(TermPool, MaxTerms)}

InitGen ==
    /\ Idle /\ lines = <<>> /\ arg = <<>>
    /\ pc = "parsed" /\ sections \in TermsMemos /\ template = FULL_TEMPLATE

NextGen == GenerateHtml

SpecGen == InitGen /\ [][NextGen]_vars

\* C5: with the template of the contract, the output of generate_html holds the
\* proposed-terms block if and only if the verdict equals "PURSUE" and the terms
\* list is not empty; in every other case the {{TERMS_SECTION}} placeholder is
\* replaced by the empty string, and no term label and no term value is rendered.
C5_TermsBlock ==
    pc = "done" =>
        LET shown == sections.verdict = <<"PURSUE">> /\ sections.terms # <<>>
        IN  /\ Contains(html, <<TERMS_OPEN>>) <=> shown
            /\ ~Contains(html, <<"{{TERMS_SECTION}}">>)
            /\ ~shown =>
                   /\ ~Contains(html, <<"<div class=term-item>">>)
                   /\ \A k \in 1..Len(sections.terms) :
                          /\ ~Contains(html, sections.terms[k].label)
                          /\ ~Contains(html, sections.terms[k].value)

\* verdict PASS with terms: no block; the same terms with verdict PURSUE: the block
C5_Witness ==
    /\ pc = "done"
    /\ sections.verdict = <<"PURSUE">>
    /\ sections.terms = <<TERM_SIZE, TERM_VALUATION>>
    /\ Contains(html, <<TERMS_OPEN, "<div class=term-item>", "<div class=term-label>",
                        "Ticket", " ", "Size", "</div>">>)

\* the label texts of the entries of the terms block, in order
RECURSIVE C6_Labels(_)
C6_Labels(h) ==
    LET a == Find(h, <<"<div class=term-label>">>, 1)
        e == IF a = 0 THEN 0 ELSE Find(h, <<"</div>">>, a)
    IN  IF a = 0 \/ e = 0 THEN <<>>
        ELSE <<SubSeq(h, a + 1, e - 1)>> \o C6_Labels(From(h, e + 1))

\* C6 as stated: when the terms block is rendered, a term whose label contains
\* "rationale" (in any letter case) is no entry of its own and its value is nested
\* in the ticket-size entry, and the other terms are one entry each, in order.
C6_AsStated ==
    (pc = "done" /\ Contains(html, <<TERMS_OPEN>>)) =>
        LET terms == sections.terms
            isRationale == [k \in 1..Len(terms) |-> Contains(LowerS(terms[k].label), <<"rationale">>)]
            others == SelectSeq([k \in 1..Len(terms) |->
                                    IF isRationale[k] THEN <<>> ELSE terms[k].label],
                                LAMBDA l : l # <<>>)
        IN  /\ C6_Labels(html) = others
            /\ \A k \in 1..Len(terms) :
                   isRationale[k] =>
                       \E j \in 1..Len(terms) :
                           /\ Contains(LowerS(terms[j].label), <<"ticket", " ", "size">>)
                           /\ Contains(html,
                                  <<"<div class=term-label>">> \o terms[j].label
                                      \o <<"</div>", "<div class=term-value>">> \o terms[j].value
                                      \o <<"</div>", "<div class=term-rationale>">>
                                      \o terms[k].value \o <<"</div>">>)

\* a rationale term without a ticket-size term: the block is rendered and the
\* value of the rationale is nowhere in it
C6_Witness ==
    /\ pc = "done"
    /\ sections.verdict = <<"PURSUE">>
    /\ sections.terms = <<TERM_RATIONALE, TERM_VALUATION>>
    /\ Contains(html, <<TERMS_OPEN>>)
    /\ ~Contains(html, <<"early">>)

(***************************************************************************)
(* parse_analysis followed by generate_html                                *)
(***************************************************************************)
MaxMemoLines == 3

BLANK_RATING_ROW == <<"|", "a", "|", " ", "|", "c", "|">>

MemoLines ==
    {<<"#", "#", "#", " ", "FIT">>, <<"#", "#", "#", " ", "RISKS">>,
     <<"#", "#", "#", " ", "TEAM">>, BLANK_RATING_ROW,
     <<"*", "*", "a", " ", "[", "b", "]", "(">>, <<" ">>}

MemoDocs == {Join(ls, <<NL>>) : ls \in SeqsUpTo(MemoLines, MaxMemoLines)}

InitPipe ==
    /\ Idle /\ sections = EmptySections /\ template \in Templates
    /\ pc = "parse" /\ arg \in MemoDocs /\ lines = Split(arg, <<NL>>)

NextPipe == ParseLine \/ ParseReturn \/ GenerateHtml

SpecPipe == InitPipe /\ [][NextPipe]_vars

\* a step of the two calls: one more line of the loop of parse_analysis, its
\* return, or the return of generate_html
C1_Step ==
    \/ pc = "parse" /\ pc' = "parse" /\ idx' = idx + 1 /\ idx' <= Len(lines) + 1
    \/ pc = "parse" /\ pc' = "parsed"
    \/ pc = "parsed" /\ pc' = "done"

\* C1: for every document, every template text and every auxiliary analyst text,
\* parse_analysis followed by generate_html raises nothing, returns a string, and
\* comes to its end: the loop over the lines of the document is left after as many
\* turns as there are lines, and every step is one of the loop or a return.
C1_Total ==
    /\ [](raised = FALSE)
    /\ [](pc = "parse" => idx \in 1..(Len(lines) + 1))
    /\ [](pc = "done" => \A n \in 1..Len(html) : html[n] \in STRING)
    /\ [][C1_Step]_vars

\* a document whose FIT table has a row with a blank rating cell, the one place
\* where generate_html takes the first word of a text: the page is returned
C1_Witness ==
    /\ pc = "done"
    /\ lines = <<<<"#", "#", "#", " ", "FIT">>, BLANK_RATING_ROW>>
    /\ sections.fit_table = <<[criterion |-> <<"a">>, rating |-> <<>>, assessment |-> <<"c">>]>>
    /\ template = FULL_TEMPLATE
    /\ bull_case # <<>>
    /\ raised = FALSE
    /\ Contains(html, <<"<td class=criterion>", "a", "</td>">>)

(***************************************************************************)
(* parse_analysis on documents of several title lines                      *)
(***************************************************************************)
TitleDocLines ==
    {<<"#", " ", "Acme">>, <<"#", " ", "Beta">>, <<"#", " ", "PASS">>,
     <<"#", " ", "*", "*", "pursue", "*", "*">>, H_RECOMMENDATION, <<"MONITOR">>}

TitleDocs == {Join(ls, <<NL>>) : ls \in SeqsUpTo(TitleDocLines, MaxLines)}

InitTitles ==
    /\ Idle /\ sections = EmptySections /\ template = <<>>
    /\ pc = "parse" /\ arg \in TitleDocs /\ lines = Split(arg, <<NL>>)

SpecTitles == InitTitles /\ [][NextParse]_vars

\* the line is a title line that names a verdict / that names a company
C11_SetsVerdict(l) == \E v \in VerdictWords : DocTitleNames(l, v)
C11_SetsCompany(l) == DocIsTitle(l) /\ ~C11_SetsVerdict(l)

\* C11 as stated: a title line that comes after a title line that set company_name
\* leaves company_name as it is, and a title line that comes after a title line that
\* set verdict leaves verdict as it is.
C11_AsStated ==
    [][pc = "parse" /\ idx <= Len(lines) =>
         /\ (C11_SetsCompany(lines[idx]) /\ \E j \in 1..(idx - 1) : C11_SetsCompany(lines[j]))
                => sections'.company_name = sections.company_name
         /\ (C11_SetsVerdict(lines[idx]) /\ \E j \in 1..(idx - 1) : C11_SetsVerdict(lines[j]))
                => sections'.verdict = sections.verdict]_vars

\* the second title line has replaced the company name of the first, and the
\* second verdict title line the verdict of the first
C11_Witness ==
    /\ pc = "parsed"
    /\ lines = <<<<"#", " ", "Acme">>, <<"#", " ", "PASS">>, <<"#", " ", "Beta">>,
                 <<"#", " ", "*", "*", "pursue", "*", "*">>>>
    /\ sections.company_name = <<"Beta">>
    /\ sections.verdict = <<"PURSUE">>

(***************************************************************************)
(* parse_analysis, then generate_html with the template of the contract,   *)
(* on documents whose text holds placeholder tokens                        *)
(***************************************************************************)
TokenDocLines ==
    {<<"#", " ", "Acme">>, <<"#", " ", "{{TEAM}}">>,
     <<"#", "#", "#", " ", "THE", " ", "OPPORTUNITY">>, <<"#", "#", "#", " ", "TEAM">>,
     <<"{{COMPANY_NAME}}">>, <<"Strong", " ", "team">>,
     <<"a", " ", "{{BOTTOM_LINE}}", " ", "{{DATE}}">>}

TokenDocs == {Join(ls, <<NL>>) : ls \in SeqsUpTo(TokenDocLines, MaxMemoLines)}

InitTokens ==
    /\ Idle /\ sections = EmptySections /\ template = FULL_TEMPLATE
    /\ pc = "parse" /\ arg \in TokenDocs /\ lines = Split(arg, <<NL>>)

SpecTokens == InitTokens /\ [][NextPipe]_vars

\* the placeholder tokens of the template contract
C12_Placeholders ==
    {"{{COMPANY_NAME}}", "{{SNAPSHOT}}", "{{FIT_TABLE}}", "{{BULL_CASE}}", "{{BEAR_CASE}}",
     "{{KEY_DEBATES}}", "{{VERDICT}}", "{{VERDICT_CLASS}}", "{{CONFIDENCE}}",
     "{{CONFIDENCE_CLASS}}", "{{VERDICT_RATIONALE}}", "{{TERMS_SECTION}}", "{{RISKS}}",
     "{{DD_PRIORITIES}}", "{{BOTTOM_LINE}}", "{{OPPORTUNITY}}", "{{MARKET}}",
     "{{COMPETITION}}", "{{TEAM}}", "{{INVESTORS}}", "{{DATE}}", "{{SOURCE}}",
     "{{BULL_ANALYST}}", "{{BEAR_ANALYST}}", "{{DELIBERATION}}", "{{ANALYST_SECTIONS}}"}

C12_HasPlaceholder(s) == \E n \in 1..Len(s) : s[n] \in C12_Placeholders

\* no text handed to generate_html holds a placeholder token: the document, the
\* source and the three analyst texts
C12_InputsClean ==
    /\ ~C12_HasPlaceholder(arg)
    /\ ~C12_HasPlaceholder(SOURCE)
    /\ ~C12_HasPlaceholder(bull_case)
    /\ ~C12_HasPlaceholder(bear_case)
    /\ ~C12_HasPlaceholder(deliberation)

\* C12 (amended): with the template of the contract, in which every placeholder
\* occurs once, and with a document, a source and analyst texts that hold no
\* placeholder token, the output of generate_html holds no placeholder token,
\* with the analyst texts present and with them absent.
C12_NoPlaceholderLeft ==
    (pc = "done" /\ C12_InputsClean) => ~C12_HasPlaceholder(html)

\* C12 as stated: with the template of the contract the output of generate_html
\* holds no placeholder token, whatever the document.
C12_AsStated == pc = "done" => ~C12_HasPlaceholder(html)

\* a document with a company name and two sections, rendered with the analyst
\* texts present: every placeholder is gone and the appendix is kept
C12_Witness ==
    /\ pc = "done"
    /\ C12_InputsClean
    /\ bull_case # <<>> /\ bear_case # <<>> /\ deliberation # <<>>
    /\ sections.company_name = <<"Acme">>
    /\ sections.team = <<"<p>", "Strong", " ", "team", "</p>">>
    /\ Contains(html, <<APPENDIX_START>>)
    /\ Contains(html, <<"<p>", "Strong", " ", "team", "</p>">>)
    /\ ~C12_HasPlaceholder(html)

\* the analyst placeholders of the appendix region
C13_AnalystPlaceholders ==
    {"{{BULL_ANALYST}}", "{{BEAR_ANALYST}}", "{{DELIBERATION}}", "{{ANALYST_SECTIONS}}"}

C13_Has(s, tokens) == \E n \in 1..Len(s) : s[n] \in tokens

\* the template without its appendix region: the text before the start marker and
\* the text after the end marker
C13_Outside(tpl) ==
    LET a == CHOOSE n \in 1..Len(tpl) : tpl[n] = APPENDIX_START
        e == CHOOSE n \in 1..Len(tpl) : tpl[n] = APPENDIX_END
    IN  SubSeq(tpl, 1, a - 1) \o SubSeq(tpl, e + 1, Len(tpl))

\* the appendix region of the template of the contract with its placeholders filled
C13_Filled ==
    <<APPENDIX_START>> \o markdown_to_simple_html(bull_case) \o <<NL>>
        \o markdown_to_simple_html(bear_case) \o <<NL>>
        \o (IF deliberation = <<>> THEN <<>> ELSE markdown_to_simple_html(deliberation))
        \o <<APPENDIX_END>>

\* C13: with the template of the contract, generate_html deletes the whole region
\* between the appendix markers, markers included, whenever the bull or the bear
\* text is absent (the output is that of the template without the region); when
\* both are present the region is kept with the three analyst placeholders filled;
\* the output never holds an analyst placeholder.
C13_Appendix ==
    pc = "done" =>
        /\ ~C13_Has(html, C13_AnalystPlaceholders)
        /\ (bull_case = <<>> \/ bear_case = <<>>) =>
               /\ ~C13_Has(html, {APPENDIX_START, APPENDIX_END})
               /\ html = ReplaceEach(C13_Outside(template),
                                     Substitutions(sections, SOURCE, None))
        /\ (bull_case # <<>> /\ bear_case # <<>>) =>
               html = ReplaceEach(C13_Outside(template),
                                  Substitutions(sections, SOURCE, None)) \o C13_Filled

\* the bull text is present and the bear text is absent: the region is gone, the
\* rest of the memo is rendered
C13_Witness ==
    /\ pc = "done"
    /\ bull_case = ANALYST_TEXT /\ bear_case = <<>> /\ deliberation = ANALYST_TEXT
    /\ sections.team = <<"<p>", "Strong", " ", "team", "</p>">>
    /\ Contains(html, <<"<p>", "Strong", " ", "team", "</p>">>)
    /\ ~Contains(html, <<APPENDIX_START>>)
    /\ ~Contains(html, <<"<h3>", "h", "</h3>">>)

(***************************************************************************)
(* save_section on its own, by section name                                *)
(***************************************************************************)
\* section names as parse_analysis hands them over: heading texts in upper case
SectionNames ==
    {<<"THE", " ", "OPPORTUNITY">>, <<"SNAPSHOT">>, <<"THE", " ", "MARKET">>,
     <<"MARKET", " ", "FIT">>, <<"COMPETITIVE", " ", "POSITION">>, <<"COMPETITION">>,
     <<"THE", " ", "TEAM">>, <<"TEAM", " ", "RISKS">>, <<"EXISTING", " ", "INVESTORS">>,
     <<"INVESTOR", " ", "TERMS">>, <<"BRAMBLE", " ", "FIT">>, <<"RISK", " ", "FIT">>,
     <<"PROFIT">>, <<"BULL", " ", "CASE">>, <<"BEAR", " ", "CASE">>,
     <<"BULL", " ", "VS", " ", "BEAR">>, <<"KEY", " ", "DEBATES">>, <<"DEBATES">>,
     <<"KEY", " ", "TERMS">>, <<"RECOMMENDATION">>, <<"PROPOSED", " ", "TERMS">>,
     <<"TERMS", " ", "RISK">>, <<"RISKS", " ", "&", " ", "GAPS">>,
     <<"DUE", " ", "DILIGENCE", " ", "PRIORITIES">>, <<"DD">>, <<"ADDENDUM">>,
     <<"BOTTOM", " ", "LINE">>, <<"BOTTOM", " ", "RISK">>, <<"APPENDIX">>, <<"KEY">>}

\* a body on which every extractor finds something
MIXED_BODY ==
    <<<<"PURSUE">>,
      <<"|", " ", "a", " ", "|", " ", "strong", " ", "|", " ", "b", " ", "|">>,
      <<"-", " ", "*", "*", "A", "*", "*", " ", "-", " ", "b">>,
      <<"*", "*", "Stage", ":", "*", "*", " ", "x">>,
      <<"Key", " ", "Risks">>,
      <<"1", ".", " ", "x", ":", " ", "y">>>>

SaveBodies == {MIXED_BODY, <<<<"Strong", " ", "team">>>>}

\* the memo before the call: nothing saved yet, or the sections of an earlier part
\* of the document
SavedBefore ==
    {EmptySections,
     parse_analysis(<<"#", " ", "Acme", NL, "#", "#", "#", " ", "TEAM", NL, "Ana", NL,
                      "#", "#", "#", " ", "RISK", " ", "FIT", NL,
                      "|", "u", "|", "weak", "|", "v", "|", NL,
                      "#", "#", "#", " ", "RISKS", NL, "Key", " ", "Risks", NL,
                      "1", ".", " ", "u", ":", " ", "v">>),
     parse_analysis(<<"#", " ", "PASS", NL, "#", "#", "#", " ", "RECOMMENDATION", NL,
                      "*", "*", "Confidence", ":", "*", "*", " ", "HIGH", NL,
                      "Too", " ", "early">>)}

InitSave ==
    /\ idx = 1 /\ lines = <<>> /\ template = <<>> /\ current_content = <<>>
    /\ bull_case = <<>> /\ bear_case = <<>> /\ deliberation = <<>> /\ html = <<>>
    /\ raised = FALSE /\ ret = <<>>
    /\ NoScreening
    /\ pc = "call"
    /\ sections \in SavedBefore
    /\ current_section \in SectionNames
    /\ arg \in SaveBodies

\* save_section(sections, current_section, content)
CallSaveNamed ==
    /\ pc = "call"
    /\ ret' = save_section(sections, current_section, arg)
    /\ pc' = "done"
    /\ UNCHANGED screening
    /\ UNCHANGED <<lines, idx, sections, current_section, current_content, template,
                   bull_case, bear_case, deliberation, html, raised, arg>>

NextSave == CallSaveNamed

SpecSave == InitSave /\ [][NextSave]_vars

\* the categories in the order of the claim: the keywords of each, a name that is
\* one keyword alone, and the fields its extractor fills
C14_Order ==
    <<[keys |-> {<<"OPPORTUNITY">>}, fields |-> {"opportunity"}],
      [keys |-> {<<"SNAPSHOT">>}, fields |-> {"snapshot"}],
      [keys |-> {<<"MARKET">>}, fields |-> {"market"}],
      [keys |-> {<<"COMPETITIVE">>, <<"COMPETITION">>}, fields |-> {"competition"}],
      [keys |-> {<<"TEAM">>}, fields |-> {"team"}],
      [keys |-> {<<"INVESTOR">>}, fields |-> {"investors"}],
      [keys |-> {<<"FIT">>}, fields |-> {"fit_table", "overall_fit"}],
      [keys |-> {<<"BULL">>}, fields |-> {"bull_case"}],
      [keys |-> {<<"BEAR">>}, fields |-> {"bear_case"}],
      [keys |-> {<<"KEY", " ", "DEBATE">>, <<"DEBATES">>}, fields |-> {"key_debates"}],
      [keys |-> {<<"RECOMMENDATION">>},
       fields |-> {"verdict", "confidence", "verdict_rationale"}],
      [keys |-> {<<"TERMS">>}, fields |-> {"terms"}],
      [keys |-> {<<"RISK">>}, fields |-> {"risks", "info_gaps"}],
      [keys |-> {<<"DUE", " ", "DILIGENCE">>, <<"DD">>}, fields |-> {"dd_priorities"}],
      [keys |-> {<<"BOTTOM">>}, fields |-> {"bottom_line"}]>>

C14_Matches(name) == {n \in 1..Len(C14_Order) : \E kw \in C14_Order[n].keys : InName(name, kw)}

\* the first category of the order that the name matches, 0 when it matches none
C14_First(name) ==
    IF C14_Matches(name) = {} THEN 0
    ELSE CHOOSE n \in C14_Matches(name) : \A m \in C14_Matches(name) : n <= m

\* C14: save_section takes the first category, in the order OPPORTUNITY, SNAPSHOT,
\* MARKET, COMPETITIVE/COMPETITION, TEAM, INVESTOR, FIT, BULL, BEAR, KEY
\* DEBATE/DEBATES, RECOMMENDATION, TERMS, RISK, DUE DILIGENCE/DD, BOTTOM, with a
\* keyword that occurs in the upper-case section name: the result is the one a name
\* that is that keyword alone gives, only the fields of that category differ from
\* the memo before the call, and a name with no keyword leaves the memo as it was.
C14_FirstCategoryWins ==
    pc = "done" =>
        LET first == C14_First(current_section)
        IN  IF first = 0 THEN ret = sections
            ELSE /\ \A kw \in C14_Order[first].keys : ret = save_section(sections, kw, arg)
                 /\ \A f \in (DOMAIN sections) \ C14_Order[first].fields : ret[f] = sections[f]

\* "RISK FIT" after a memo that holds risks and a fit table: the fit table is
\* replaced, the risks stay
C14_Witness ==
    /\ pc = "done"
    /\ current_section = <<"RISK", " ", "FIT">>
    /\ arg = MIXED_BODY
    /\ sections.risks = <<[title |-> <<"u">>, description |-> <<"v">>]>>
    /\ sections.fit_table # <<>>
    /\ ret.fit_table = <<[criterion |-> <<"a">>, rating |-> <<"strong">>, assessment |-> <<"b">>]>>
    /\ ret.risks = sections.risks

(***************************************************************************)
(* parse_analysis on documents with level-2 headings and rules             *)
(***************************************************************************)
RuleDocLines ==
    {<<"#", "#", " ", "Memo">>, <<"-", "-", "-">>, <<" ", "-", "-", "-", " ">>,
     <<"#", "#", "#", " ", "TEAM">>, <<"Ana">>, <<"#", " ", "Acme">>, <<>>}

RuleDocs == {Join(ls, <<NL>>) : ls \in SeqsUpTo(RuleDocLines, MaxLines)}

InitRules ==
    /\ Idle /\ sections = EmptySections /\ template = <<>>
    /\ pc = "parse" /\ arg \in RuleDocs /\ lines = Split(arg, <<NL>>)

SpecRules == InitRules /\ [][NextParse]_vars

\* the line, trimmed, starts with '## ' or is '---'
C15_IsDropped(l) ==
    LET t == Strip(l)
    IN  (Len(t) >= 3 /\ t[1] = "#" /\ t[2] = "#" /\ t[3] = " ") \/ t = <<"-", "-", "-">>

\* the document without those lines
C15_Without(ls) == SelectSeq(ls, LAMBDA l : ~C15_IsDropped(l))

\* C15: the memo parse_analysis returns for a document is the memo it returns for
\* the document without its level-2 heading lines and its '---' lines, and the
\* turn of the loop that reads such a line leaves the memo, the current section
\* and its collected content as they are.
C15_RulesDropped ==
    /\ [](pc = "parsed" => sections = parse_analysis(Join(C15_Without(lines), <<NL>>)))
    /\ [][(pc = "parse" /\ idx <= Len(lines) /\ C15_IsDropped(lines[idx]))
              => UNCHANGED <<sections, current_section, current_content>>]_vars

\* a team section with a rule between its two lines: one paragraph of two lines
C15_Witness ==
    /\ pc = "parsed"
    /\ lines = <<<<"#", "#", "#", " ", "TEAM">>, <<"Ana">>, <<" ", "-", "-", "-", " ">>,
                 <<"Ana">>>>
    /\ sections.team = <<"<p>", "Ana", "<br>", NL, "Ana", "</p>">>

(***************************************************************************)
(* Calls of parse_analysis and markdown_to_html one after the other, in    *)
(* any order; ret is the list of the calls made: <<function, argument,     *)
(* result>>.                                                               *)
(***************************************************************************)
MaxCalls == 3

RepeatDocs ==
    {<<"#", "#", "#", " ", "TEAM", NL, "Ana">>,
     <<"#", " ", "Acme", NL, "#", "#", "#", " ", "RECOMMENDATION", NL, "PURSUE">>,
     <<"#", " ", "PASS">>}

RepeatTexts == {<<"Ana">>, <<"-", " ", "x", NL, "-", " ", "y">>}

InitRepeat == Idle /\ NoMemo /\ pc = "idle" /\ arg = <<>>

\* parse_analysis(analysis) is entered: its locals are made
EnterParse ==
    /\ pc = "idle"
    /\ Len(ret) < MaxCalls
    /\ \E analysis \in RepeatDocs :
           /\ arg' = analysis
           /\ lines' = Split(analysis, <<NL>>)
    /\ sections' = NewSections(sections)
    /\ current_section' = None
    /\ current_content' = <<>>
    /\ idx' = 1
    /\ pc' = "parse"
    /\ UNCHANGED screening
    /\ UNCHANGED <<template, bull_case, bear_case, deliberation, html, raised, ret>>

\* parse_analysis hands its memo to the caller
LeaveParse ==
    /\ pc = "parsed"
    /\ ret' = Append(ret, <<"parse_analysis", arg, sections>>)
    /\ pc' = "idle"
    /\ UNCHANGED screening
    /\ UNCHANGED <<lines, idx, sections, current_section, current_content, template,
                   bull_case, bear_case, deliberation, html, raised, arg>>

\* markdown_to_html(text, preserve_breaks), from entry to return
CallMdAgain ==
    /\ pc = "idle"
    /\ Len(ret) < MaxCalls
    /\ \E text \in RepeatTexts, preserve_breaks \in BOOLEAN :
           /\ arg' = text
           /\ ret' = Append(ret, <<"markdown_to_html", <<text, preserve_breaks>>,
                                   markdown_to_html(text, preserve_breaks)>>)
    /\ UNCHANGED screening
    /\ UNCHANGED <<pc, lines, idx, sections, current_section, current_content, template,
                   bull_case, bear_case, deliberation, html, raised>>

NextRepeat == EnterParse \/ ParseLine \/ ParseReturn \/ LeaveParse \/ CallMdAgain

SpecRepeat == InitRepeat /\ [][NextRepeat]_vars

MaxVerdictLines == 3

VerdictBodyLines ==
    {<<"#", " ", "PURSUE">>, <<"PASS">>,
     <<"*", "*", "Confidence", ":", "*", "*", " ", "HIGH">>,
     <<"Confidence", ":", " ", "low">>,
     <<"-", " ", "item">>, <<"*", " ", "star">>,
     <<"*", "*", "Strong", "*", "*", " ", "fit">>,
     <<"Good", " ", "*", "*", "team", "*", "*">>, <<>>}

VerdictTexts == {Join(ls, <<NL>>) : ls \in SeqsUpTo(VerdictBodyLines, MaxVerdictLines)}

InitVerdict == Idle /\ NoMemo /\ pc = "call" /\ arg \in VerdictTexts

CallParseVerdict ==
    /\ pc = "call"
    /\ ret' = parse_verdict(arg)
    /\ pc' = "done"
    /\ UNCHANGED screening
    /\ UNCHANGED <<lines, idx, sections, current_section, current_content, template,
                   bull_case, bear_case, deliberation, html, raised, arg>>

NextVerdict == CallParseVerdict

SpecVerdict == InitVerdict /\ [][NextVerdict]_vars

\* the trimmed line is a verdict line, with the hash or bare
C17_IsVerdictLine(t) ==
    \/ Len(t) = 1 /\ t[1] \in VerdictWords
    \/ Len(t) = 3 /\ t[1] = "#" /\ t[2] = " " /\ t[3] \in VerdictWords

\* the trimmed line is one the claim takes as the rationale: not empty, no verdict
\* line, no heading marker and no bullet marker at its start, no "Confidence" in it
C17_IsRationale(t) ==
    /\ t # <<>>
    /\ ~C17_IsVerdictLine(t)
    /\ t[1] # "#"
    /\ ~(Len(t) >= 2 /\ t[1] \in {"-", "*"} /\ t[2] = " ")
    /\ \A n \in 1..Len(t) : t[n] # "Confidence"

\* C17 as stated: the rationale is the first line of the body that is non-empty,
\* starts with no heading marker and no bullet marker and holds no "Confidence",
\* with its bold markers converted; a line that begins with bold text is taken, a
\* line that starts with a bullet marker is not.
C17_AsStated ==
    pc = "done" =>
        LET ls == Split(arg, <<NL>>)
            at == {n \in 1..Len(ls) : C17_IsRationale(Strip(ls[n]))}
            first == CHOOSE n \in at : \A m \in at : n <= m
        IN  at # {} => ret.rationale = SubBold(Strip(ls[first]))

\* a bullet line before a line of prose: the bullet line is the rationale
C17_Witness ==
    /\ pc = "done"
    /\ arg = <<"-", " ", "item", NL, "Good", " ", "*", "*", "team", "*", "*">>
    /\ ret.rationale = <<"-", " ", "item">>

\* the trimmed line is a confidence line, with or without bold markers
C18_IsConfidenceLine(t) == \E n \in 1..(Len(t) - 1) : t[n] = "Confidence" /\ t[n + 1] = ":"

\* C18 as stated: when every non-empty line of the body is a verdict line or a
\* confidence line, the rationale is the empty string.
C18_AsStated ==
    pc = "done" =>
        LET ls == Split(arg, <<NL>>)
        IN  (\A n \in 1..Len(ls) :
                \/ Strip(ls[n]) = <<>>
                \/ C17_IsVerdictLine(Strip(ls[n]))
                \/ C18_IsConfidenceLine(Strip(ls[n])))
            => ret.rationale = <<>>

\* a bare verdict line and a confidence line: the verdict word is the rationale
C18_Witness ==
    /\ pc = "done"
    /\ arg = <<"PASS", NL, "*", "*", "Confidence", ":", "*", "*", " ", "HIGH">>
    /\ ret = [verdict |-> <<"PASS">>, confidence |-> <<"HIGH">>, rationale |-> <<"PASS">>]

(***************************************************************************)
(* parse_risks on its own                                                  *)
(***************************************************************************)
MaxRiskLines == 4

GAPS_LINE == <<"*", "*", "Information", " ", "Gaps", ":", "*", "*", " ", "z">>

RISK_BOLD == <<"2", ".", " ", "*", "*", "c", ":", "*", "*", " ", "d">>

RiskBodyLines ==
    {<<"*", "*", "Critical", " ", "Risks", ":", "*", "*">>,
     <<"1", ".", " ", "a", ":", " ", "b">>,
     RISK_BOLD,
     GAPS_LINE,
     <<"Information", " ", "Gaps", ":", " ", "y">>,
     <<"Information", " ", "Gaps">>,
     <<" ", "more", " ", "detail">>, <<>>}

RiskTexts == {Join(ls, <<NL>>) : ls \in SeqsUpTo(RiskBodyLines, MaxRiskLines)}

InitRisks == Idle /\ NoMemo /\ pc = "call" /\ arg \in RiskTexts

CallParseRisks ==
    /\ pc = "call"
    /\ ret' = parse_risks(arg)
    /\ pc' = "done"
    /\ UNCHANGED screening
    /\ UNCHANGED <<lines, idx, sections, current_section, current_content, template,
                   bull_case, bear_case, deliberation, html, raised, arg>>

NextRisks == CallParseRisks

SpecRisks == InitRisks /\ [][NextRisks]_vars

\* the trimmed line opens the risk list / is an "Information Gaps" line
C19_OpensList(t) ==
    \E n \in 1..(Len(t) - 2) : t[n] \in {"Critical", "Key"} /\ t[n + 1] = " " /\ t[n + 2] = "Risks"
C19_IsGapsLine(t) ==
    /\ ~C19_OpensList(t)
    /\ \E n \in 1..(Len(t) - 2) : t[n] = "Information" /\ t[n + 1] = " " /\ t[n + 2] = "Gaps"

\* the inside-risk-list flag is false when line n of ls is scanned
C19_FlagFalse(ls, n) ==
    LET set == {m \in 1..(n - 1) : C19_OpensList(Strip(ls[m])) \/ C19_IsGapsLine(Strip(ls[m]))}
        last == CHOOSE m \in set : \A k \in set : k <= m
    IN  set = {} \/ C19_IsGapsLine(Strip(ls[last]))

\* line n of ls is one the claim is about: non-empty, scanned with the flag false,
\* without the word "Information" (and no line that sets the flag)
C19_Eligible(ls, n) ==
    LET t == Strip(ls[n])
    IN  /\ t # <<>>
        /\ ~C19_OpensList(t)
        /\ \A k \in 1..Len(t) : t[k] # "Information"
        /\ C19_FlagFalse(ls, n)

\* the trimmed eligible lines after line k, in document order
C19_Followers(ls, k) ==
    LET F == [n \in 1..Len(ls) |-> IF n > k /\ C19_Eligible(ls, n) THEN <<Strip(ls[n])>> ELSE <<>>]
        G == SelectSeq(F, LAMBDA x : x # <<>>)
    IN  [n \in 1..Len(G) |-> G[n][1]]

\* the "Information Gaps" lines with trailing text: each starts info_gaps anew
C19_Starts(ls) ==
    {n \in 1..Len(ls) : C19_IsGapsLine(Strip(ls[n])) /\ InfoGapsSearch(Strip(ls[n])) # <<>>}

C19_LastStart(ls) == CHOOSE n \in C19_Starts(ls) : \A m \in C19_Starts(ls) : m <= n

\* C19 (amended): info_gaps stays empty until an "Information Gaps" line with
\* trailing text starts it; from then on every non-empty line scanned with the
\* flag false that holds no "Information" and opens no risk list is appended,
\* trimmed, space-joined and in document order. Lines scanned while info_gaps is
\* still empty are dropped.
C19_Continuation ==
    pc = "done" =>
        LET ls == Split(arg, <<NL>>)
            k == C19_LastStart(ls)
        IN  IF C19_Starts(ls) = {} THEN ret[2] = <<>>
            ELSE ret[2] = Join(<<InfoGapsSearch(Strip(ls[k]))[1]>> \o C19_Followers(ls, k),
                               <<" ">>)

\* C19 as stated: the lines are appended whether or not info_gaps already holds
\* text, so without any "Information Gaps" line info_gaps is the space-joined
\* eligible lines of the whole text.
C19_AsStated ==
    pc = "done" =>
        LET ls == Split(arg, <<NL>>)
            k == C19_LastStart(ls)
        IN  IF C19_Starts(ls) = {} THEN ret[2] = Join(C19_Followers(ls, 0), <<" ">>)
            ELSE ret[2] = Join(<<InfoGapsSearch(Strip(ls[k]))[1]>> \o C19_Followers(ls, k),
                               <<" ">>)

\* a line before the gaps line is dropped, the two after it are appended across an
\* empty line
C19_Witness ==
    /\ pc = "done"
    /\ arg = Join(<<<<" ", "more", " ", "detail">>,
                    <<"Information", " ", "Gaps", ":", " ", "y">>,
                    <<" ", "more", " ", "detail">>,
                    <<"1", ".", " ", "a", ":", " ", "b">>>>, <<NL>>)
    /\ ret[2] = <<"y", " ", "more", " ", "detail", " ", "1", ".", " ", "a", ":", " ", "b">>

\* C20 as stated: the line `**Information Gaps:** z` starts info_gaps with exactly
\* its trailing text z; as the last line of the text it leaves info_gaps = z.
C20_AsStated ==
    pc = "done" =>
        LET ls == Split(arg, <<NL>>)
        IN  ls[Len(ls)] = GAPS_LINE => ret[2] = <<"z">>

\* the risk list of the memo format and its gaps line: info_gaps keeps the closing
\* bold marker
C20_Witness ==
    /\ pc = "done"
    /\ arg = Join(<<<<"*", "*", "Critical", " ", "Risks", ":", "*", "*">>,
                    <<"1", ".", " ", "a", ":", " ", "b">>, GAPS_LINE>>, <<NL>>)
    /\ ret = <<<<[title |-> <<"a">>, description |-> <<"b">>]>>, <<"*", "*", " ", "z">>>>

\* the inside-risk-list flag is true when line n of ls is scanned: the last line
\* before it that moves the flag opens the list
C21_InList(ls, n) ==
    LET set == {m \in 1..(n - 1) : C19_OpensList(Strip(ls[m])) \/ C19_IsGapsLine(Strip(ls[m]))}
        last == CHOOSE m \in set : \A k \in set : k <= m
    IN  set # {} /\ C19_OpensList(Strip(ls[last]))

\* the trimmed line is `N.` followed by something, and moves no flag
C21_Numbered(t) ==
    /\ Len(t) >= 2 /\ t[1] \in {"1", "2", "3"} /\ t[2] = "."
    /\ ~C19_OpensList(t) /\ ~C19_IsGapsLine(t)

\* where the title of `**Title:** description` ends: the first `:**` after a
\* non-empty title with text behind it, 0 when b is not of that form
C21_BoldEnd(b) ==
    LET P == {p \in 4..(Len(b) - 3) : b[p] = ":" /\ b[p + 1] = "*" /\ b[p + 2] = "*"}
    IN  IF Len(b) >= 2 /\ b[1] = "*" /\ b[2] = "*" /\ P # {}
        THEN CHOOSE p \in P : \A q \in P : p <= q
        ELSE 0

\* where the title of `Title: description` ends: the first colon after a non-empty
\* title with text behind it, 0 when there is none
C21_PlainEnd(b) ==
    LET P == {p \in 2..(Len(b) - 1) : b[p] = ":"}
    IN  IF P # {} THEN CHOOSE p \in P : \A q \in P : p <= q ELSE 0

\* the risk the claim gives for the trimmed numbered line t, as a sequence of at
\* most one entry
C21_Risk(t) ==
    LET b == LStrip(SubSeq(t, 3, Len(t)))
        e == C21_BoldEnd(b)
        c == C21_PlainEnd(b)
    IN  IF e # 0
        THEN <<[title |-> SubSeq(b, 3, e - 1),
                description |-> LStrip(SubSeq(b, e + 3, Len(b)))]>>
        ELSE IF c # 0
        THEN <<[title |-> SubSeq(b, 1, c - 1),
                description |-> LStrip(SubSeq(b, c + 1, Len(b)))]>>
        ELSE <<>>

RECURSIVE C21_Expected(_, _)
C21_Expected(ls, n) ==
    IF n > Len(ls) THEN <<>>
    ELSE (IF C21_InList(ls, n) /\ C21_Numbered(Strip(ls[n])) THEN C21_Risk(Strip(ls[n]))
          ELSE <<>>) \o C21_Expected(ls, n + 1)

\* C21: the risks of parse_risks are, in document order, the entries of the
\* numbered lines scanned while the inside-risk-list flag is true: the bold form
\* `N. **Title:** description` gives {Title, description}, the plain form
\* `N. Title: description` the same split at its first colon; numbered lines
\* scanned while the flag is false give nothing.
C21_RisksInList ==
    pc = "done" => ret[1] = C21_Expected(Split(arg, <<NL>>), 1)

\* a numbered line before the list is ignored, the bold and the plain line inside
\* it are recorded in document order
C21_Witness ==
    /\ pc = "done"
    /\ arg = Join(<<<<"1", ".", " ", "a", ":", " ", "b">>,
                    <<"*", "*", "Critical", " ", "Risks", ":", "*", "*">>,
                    RISK_BOLD,
                    <<"1", ".", " ", "a", ":", " ", "b">>>>, <<NL>>)
    /\ ret[1] = <<[title |-> <<"c">>, description |-> <<"d">>],
                  [title |-> <<"a">>, description |-> <<"b">>]>>

(***************************************************************************)
(* parse_snapshot and parse_terms on their own                             *)
(***************************************************************************)
MaxLabelLines == 3

LABEL_STAGE == <<"*", "*", "Stage", ":", "*", "*", " ", "Seed">>
LABEL_SITE == <<"*", "*", "Site", ":", "*", "*", " ", "see", " ">> \o LINK_THIS
LABEL_ONLY == <<"*", "*", "Round", ":", "*", "*">>

LabelLines ==
    {LABEL_STAGE, <<" ">> \o LABEL_SITE, LABEL_ONLY, <<"Founded", " ", "2020">>, <<>>}

LabelTexts == {Join(ls, <<NL>>) : ls \in SeqsUpTo(LabelLines, MaxLabelLines)}

InitLabels == Idle /\ NoMemo /\ pc = "call" /\ arg \in LabelTexts

CallParseSnapshot ==
    /\ pc = "call"
    /\ ret' = parse_snapshot(arg)
    /\ pc' = "snapshot"
    /\ UNCHANGED screening
    /\ UNCHANGED <<lines, idx, sections, current_section, current_content, template,
                   bull_case, bear_case, deliberation, html, raised, arg>>

CallParseTerms ==
    /\ pc = "call"
    /\ ret' = parse_terms(arg)
    /\ pc' = "terms"
    /\ UNCHANGED screening
    /\ UNCHANGED <<lines, idx, sections, current_section, current_content, template,
                   bull_case, bear_case, deliberation, html, raised, arg>>

NextLabels == CallParseSnapshot \/ CallParseTerms

SpecLabels == InitLabels /\ [][NextLabels]_vars

\* the trimmed line starts with `**` and contains `:**`
C22_Qualifies(t) ==
    /\ Len(t) >= 2 /\ t[1] = "*" /\ t[2] = "*"
    /\ \E p \in 1..(Len(t) - 2) : t[p] = ":" /\ t[p + 1] = "*" /\ t[p + 2] = "*"

\* the entry the claim gives for a qualifying line: the text inside the bold
\* markers, and the remainder after the colon with its links converted
C22_Entry(t) ==
    LET P == {p \in 3..(Len(t) - 2) : t[p] = ":" /\ t[p + 1] = "*" /\ t[p + 2] = "*"}
        p == CHOOSE q \in P : \A r \in P : q <= r
    IN  [label |-> SubSeq(t, 3, p - 1), value |-> SubLinks(LStrip(SubSeq(t, p + 3, Len(t))))]

RECURSIVE C22_Expected(_)
C22_Expected(ls) ==
    IF ls = <<>> THEN <<>>
    ELSE (IF C22_Qualifies(Strip(Head(ls))) THEN <<C22_Entry(Strip(Head(ls)))>> ELSE <<>>)
         \o C22_Expected(Tail(ls))

\* C22 as stated: parse_snapshot and parse_terms alike return one entry per line
\* that starts with `**` and contains `:**`, in document order, the label being the
\* text inside the bold markers and the value the remainder after the colon with
\* every markdown link converted to an anchor tag.
C22_AsStated ==
    pc \in {"snapshot", "terms"} => ret = C22_Expected(Split(arg, <<NL>>))

\* what holds of parse_snapshot on lines that carry a value: the entries above
C22_SnapshotLinks ==
    (pc = "snapshot" /\ \A n \in 1..Len(Split(arg, <<NL>>)) :
                            Strip(Split(arg, <<NL>>)[n]) # LABEL_ONLY)
        => ret = C22_Expected(Split(arg, <<NL>>))

\* parse_terms keeps the markdown link of a value as it was written
C22_Witness ==
    /\ pc = "terms"
    /\ arg = Join(<<LABEL_STAGE, <<" ">> \o LABEL_SITE>>, <<NL>>)
    /\ ret = <<[label |-> <<"Stage">>, value |-> <<"Seed">>],
               [label |-> <<"Site">>, value |-> <<"see", " ">> \o LINK_THIS]>>

(***************************************************************************)
(* parse_fit_table on lines that name the overall fit                      *)
(***************************************************************************)
OVERALL_BOLD == <<"*", "*", "Overall", " ", "Fit", ":", " ", "Strong", "*", "*">>
OVERALL_ROW == <<"|", " ", "OVERALL", " ", "FIT", " ", "|", " ", "moderate", " ", "|", " ",
                 "x", " ", "|">>
OVERALL_SENTENCE == <<"Overall", " ", "fit", ":", " ", "WEAK">>
OVERALL_LOWER == <<"overall", " ", "fit", " ", "is", " ", "strong">>
OVERALL_OPEN == <<"Overall", " ", "Fit", ":", " ", "open">>

OverallLines ==
    {OVERALL_BOLD, OVERALL_ROW, OVERALL_SENTENCE, OVERALL_LOWER, OVERALL_OPEN, FIT_ROW}

OverallTexts == {Join(ls, <<NL>>) : ls \in SeqsUpTo(OverallLines, MaxFitLines)}

InitOverall == Idle /\ NoMemo /\ pc = "call" /\ arg \in OverallTexts

SpecOverall == InitOverall /\ [][NextFit]_vars

C23_Ratings == {"STRONG", "MODERATE", "WEAK"}

\* the first rating word of a line in any letter case, upper-cased; <<>> for none
C23_RatingOf(t) ==
    LET P == {p \in 1..Len(t) : Upper(t[p]) \in C23_Ratings}
    IN  IF P = {} THEN <<>> ELSE <<Upper(t[CHOOSE p \in P : \A q \in P : p <= q])>>

\* the line holds the phrase "Overall Fit" in any letter case
C23_AnyCase(t) ==
    \E p \in 1..(Len(t) - 2) : Upper(t[p]) = "OVERALL" /\ t[p + 1] = " " /\ Upper(t[p + 2]) = "FIT"

\* the line holds the phrase spelled "Overall Fit" or "OVERALL FIT"
C23_TwoSpellings(t) ==
    \E p \in 1..(Len(t) - 2) :
        <<t[p], t[p + 1], t[p + 2]>> \in {<<"Overall", " ", "Fit">>, <<"OVERALL", " ", "FIT">>}

\* the rating of the last of the lines of ls that satisfy Phrase and hold a rating
C23_LastRating(ls, Phrase(_)) ==
    LET S == {n \in 1..Len(ls) : Phrase(ls[n]) /\ C23_RatingOf(ls[n]) # <<>>}
    IN  IF S = {} THEN <<>> ELSE C23_RatingOf(ls[CHOOSE n \in S : \A m \in S : m <= n])

\* C23 as stated: overall_fit is the upper-cased rating of the last line that
\* holds "Overall Fit" in any letter case together with a rating word, table row
\* or not, and is always STRONG, MODERATE, WEAK or empty.
C23_AsStated ==
    pc = "done" =>
        /\ ret[2] = C23_LastRating(Split(arg, <<NL>>), C23_AnyCase)
        /\ ret[2] \in {<<r>> : r \in C23_Ratings} \cup {<<>>}

\* what the code does: only the spellings "Overall Fit" and "OVERALL FIT" count
C23_TwoSpellingsOnly ==
    pc = "done" =>
        /\ ret[2] = C23_LastRating(Split(arg, <<NL>>), C23_TwoSpellings)
        /\ ret[2] \in {<<r>> : r \in C23_Ratings} \cup {<<>>}

\* a table row sets the rating, the sentence "Overall fit: WEAK" after it does not
C23_Witness ==
    /\ pc = "done"
    /\ arg = Join(<<OVERALL_ROW, OVERALL_SENTENCE>>, <<NL>>)
    /\ ret[2] = <<"MODERATE">>

\* the lines of ls with every `- **Title:** desc` written as `- **Title** - desc`
C24_DashForm(ls) ==
    [n \in 1..Len(ls) |-> IF ls[n] = BULLET_COLON_INSIDE THEN BULLET_DASH_AFTER ELSE ls[n]]

\* C24 as stated: a bullet `- **Title:** desc` is split like `- **Title** - desc`,
\* into title "Title" and description "desc".
C24_AsStated ==
    pc = "done" =>
        /\ ret = parse_bullet_points(Join(C24_DashForm(Split(arg, <<NL>>)), <<NL>>))
        /\ arg = BULLET_COLON_INSIDE =>
               ret = <<[title |-> <<"Title">>, description |-> <<"desc">>]>>

\* the bullet with the colon inside the bold markers is not split: its whole text
\* is the description of an entry without title
C24_Witness ==
    /\ pc = "done"
    /\ arg = BULLET_COLON_INSIDE
    /\ ret = <<[title |-> <<>>,
                description |-> <<"*", "*", "Title", ":", "*", "*", " ", "desc">>]>>

(***************************************************************************)
(* markdown_to_html on paragraphs                                          *)
(***************************************************************************)
MaxBlockLines == 4

BlockLines ==
    {<<"-", " ", "a">>, <<"*", " ", "b">>, <<" ", "-", " ", "d", " ">>,
     <<"1", ".", " ", "c">>, <<"plain">>, <<" ">>, <<>>}

BlockTexts == {Join(ls, <<NL>>) : ls \in SeqsUpTo(BlockLines, MaxBlockLines)}

InitBlocks == Idle /\ NoMemo /\ pc = "call" /\ arg \in BlockTexts

\* markdown_to_html(text): preserve_breaks takes its default
CallMarkdownDefault ==
    /\ pc = "call"
    /\ ret' = markdown_to_html(arg, FALSE)
    /\ pc' = "done"
    /\ UNCHANGED screening
    /\ UNCHANGED <<lines, idx, sections, current_section, current_content, template,
                   bull_case, bear_case, deliberation, html, raised, arg>>

\* markdown_to_html(text, preserve_breaks=True)
CallMarkdownBreaks ==
    /\ pc = "call"
    /\ ret' = markdown_to_html(arg, TRUE)
    /\ pc' = "breaks"
    /\ UNCHANGED screening
    /\ UNCHANGED <<lines, idx, sections, current_section, current_content, template,
                   bull_case, bear_case, deliberation, html, raised, arg>>

NextBlocks == CallMarkdownDefault \/ CallMarkdownBreaks

SpecBlocks == InitBlocks /\ [][NextBlocks]_vars

\* the runs of lines between empty lines, each a sequence of lines
RECURSIVE C25_Groups(_, _)
C25_Groups(ls, cur) ==
    IF ls = <<>> THEN <<cur>>
    ELSE IF Head(ls) = <<>> THEN <<cur>> \o C25_Groups(Tail(ls), <<>>)
    ELSE C25_Groups(Tail(ls), Append(cur, Head(ls)))

\* the non-empty paragraphs of a text, trimmed, in order
C25_Paragraphs(text) ==
    LET gs == C25_Groups(Split(text, <<NL>>), <<>>)
        ps == [k \in 1..Len(gs) |-> Strip(Join(gs[k], <<NL>>))]
    IN  SelectSeq(ps, LAMBDA p : p # <<>>)

C25_StartsItem(l) == Len(l) >= 2 /\ l[1] \in {"-", "*"} /\ l[2] = " "

\* the bullet items of the lines of a paragraph: a line that starts with a marker
\* opens an item, any other line continues the item before it
RECURSIVE C25_Items(_, _)
C25_Items(ls, cur) ==
    IF ls = <<>> THEN <<cur>>
    ELSE IF C25_StartsItem(Head(ls))
         THEN <<cur>> \o C25_Items(Tail(ls), SubSeq(Head(ls), 3, Len(Head(ls))))
    ELSE C25_Items(Tail(ls), cur \o <<NL>> \o Head(ls))

C25_IsList(p) == C25_StartsItem(p)

C25_Block(p) ==
    LET ls == Split(p, <<NL>>)
        its == C25_Items(Tail(ls), SubSeq(ls[1], 3, Len(ls[1])))
        kept == SelectSeq([k \in 1..Len(its) |-> Strip(its[k])], LAMBDA i : i # <<>>)
    IN  IF C25_IsList(p)
        THEN <<"<ul>">> \o Cat([k \in 1..Len(kept) |-> <<"<li>">> \o kept[k] \o <<"</li>">>])
                 \o <<"</ul>">>
        ELSE <<"<p>">> \o Join(ls, <<" ">>) \o <<"</p>">>

C25_Html(text) ==
    LET ps == C25_Paragraphs(text)
    IN  Join([k \in 1..Len(ps) |-> C25_Block(ps[k])], <<NL>>)

\* C25: markdown_to_html returns one block per non-empty paragraph (the trimmed
\* runs of lines between empty lines), in order and joined by newlines: a <ul>
\* with one <li> per non-empty bullet item for a paragraph that starts with a
\* bullet marker, whatever preserve_breaks is, and with preserve_breaks false one
\* <p> holding the lines joined by single spaces for any other paragraph, numbered
\* lines and later bullet lines included.
C25_OneBlockPerParagraph ==
    /\ pc = "done" => ret = C25_Html(arg)
    /\ (pc = "breaks" /\ \A k \in 1..Len(C25_Paragraphs(arg)) : C25_IsList(C25_Paragraphs(arg)[k]))
           => ret = C25_Html(arg)

\* a list of two items, then a paragraph whose numbered line and bullet line stay
\* plain text
C25_Witness ==
    /\ pc = "done"
    /\ arg = Join(<<<<"-", " ", "a">>, <<"*", " ", "b">>, <<>>, <<"1", ".", " ", "c">>>>, <<NL>>)
    /\ ret = <<"<ul>", "<li>", "a", "</li>", "<li>", "b", "</li>", "</ul>", NL,
               "<p>", "1", ".", " ", "c", "</p>">>

\* a bullet line after a non-bullet first line is paragraph text
C25_WitnessPlain ==
    /\ pc = "done"
    /\ arg = Join(<<<<"plain">>, <<"-", " ", "a">>>>, <<NL>>)
    /\ ret = <<"<p>", "plain", " ", "-", " ", "a", "</p>">>

\* the fields of the category a section name is classified into
C26_Fields(name) == IF C14_First(name) = 0 THEN {} ELSE C14_Order[C14_First(name)].fields

\* C26: save_section leaves every field outside the category of the section name
\* as it was, and what it stores in a field of the category is what the same call
\* stores into an empty memo, so it is a function of the body alone; the one case
\* where a field of the category is not stored at all is a RECOMMENDATION body
\* without verdict or confidence, which keeps the earlier value.
C26_FrameAndBodyOnly ==
    pc = "done" =>
        LET fresh == save_section(EmptySections, current_section, arg)
        IN  /\ \A f \in (DOMAIN sections) \ C26_Fields(current_section) : ret[f] = sections[f]
            /\ \A f \in C26_Fields(current_section) :
                   \/ ret[f] = fresh[f]
                   \/ /\ f \in {"verdict", "confidence"}
                      /\ fresh[f] = <<>>
                      /\ ret[f] = sections[f]

\* RISKS saved over a memo that already holds a risk, a verdict or a team: the
\* risks are those of the body alone and the rest of the memo stays
C26_Witness ==
    /\ pc = "done"
    /\ current_section = <<"RISKS", " ", "&", " ", "GAPS">>
    /\ arg = MIXED_BODY
    /\ sections.risks = <<[title |-> <<"u">>, description |-> <<"v">>]>>
    /\ sections.team # <<>>
    /\ ret.risks = <<[title |-> <<"x">>, description |-> <<"y">>]>>
    /\ ret.team = sections.team

\* RECOMMENDATION without verdict over a memo with verdict PASS: the rationale is
\* replaced, verdict and confidence are not stored
C26_WitnessKept ==
    /\ pc = "done"
    /\ current_section = <<"RECOMMENDATION">>
    /\ arg = <<<<"Strong", " ", "team">>>>
    /\ sections.verdict = <<"PASS">> /\ sections.confidence = <<"HIGH">>
    /\ sections.verdict_rationale = <<"Too", " ", "early">>
    /\ ret.verdict = <<"PASS">> /\ ret.confidence = <<"HIGH">>
    /\ ret.verdict_rationale = <<"Strong", " ", "team">>

\* the value a list of replacements gives the token t, t itself when it names none
C27_ValueOf(t, subs) ==
    IF \E k \in 1..Len(subs) : subs[k][1] = t
    THEN subs[CHOOSE k \in 1..Len(subs) : subs[k][1] = t][2]
    ELSE <<t>>

\* tpl with every placeholder replaced by its value in one pass: inserted text is
\* not looked at again
C27_SinglePass(tpl, subs) == Cat([n \in 1..Len(tpl) |-> C27_ValueOf(tpl[n], subs)])

C27_AnalystSubs ==
    <<<<"{{BULL_ANALYST}}", markdown_to_simple_html(bull_case)>>,
      <<"{{BEAR_ANALYST}}", markdown_to_simple_html(bear_case)>>,
      <<"{{DELIBERATION}}",
        IF deliberation # <<>> THEN markdown_to_simple_html(deliberation) ELSE <<>>>>,
      <<"{{ANALYST_SECTIONS}}", <<>>>>>>

\* the output of a single-pass generate_html on the template of the contract
C27_Literal ==
    IF bull_case # <<>> /\ bear_case # <<>>
    THEN C27_SinglePass(template, Substitutions(sections, SOURCE, None) \o C27_AnalystSubs)
    ELSE C27_SinglePass(C13_Outside(template), Substitutions(sections, SOURCE, None))

\* C27 as stated: the output of generate_html is the template with each
\* placeholder replaced once by its value, and a value that holds a placeholder
\* token appears in the output as it is.
C27_AsStated ==
    (pc = "done" /\ ~raised) => html = C27_Literal

\* what holds: the two agree whenever no text handed to generate_html holds a
\* placeholder token
C27_CleanInputs ==
    (pc = "done" /\ ~raised /\ C12_InputsClean) => html = C27_Literal

\* the company name {{TEAM}} is rewritten by the later TEAM step: the output holds
\* the team paragraph twice and the token nowhere
C27_Witness ==
    /\ pc = "done"
    /\ sections.company_name = <<"{{TEAM}}">>
    /\ sections.team = <<"<p>", "Strong", " ", "team", "</p>">>
    /\ SubSeq(html, 1, 5) = <<"<p>", "Strong", " ", "team", "</p>">>
    /\ ~Contains(html, <<"{{TEAM}}">>)

(***************************************************************************)
(* bramble_screen.py: the research lookups                                 *)
(*                                                                         *)
(* A call of Python returns a value or raises: [kind, value].  What the    *)
(* network answers is an input of the lookup.  An API key is the string of *)
(* the environment variable or key file, empty when neither is set.        *)
(***************************************************************************)
Returns(v) == [kind |-> "return", value |-> v]
Raises(e) == [kind |-> "raise", value |-> e]

\* requests.get of the search and of the three detail requests
HttpAnswers ==
    [search : {"raises", "status_500", "no_items", "items"},
     details : {"raises", "status_404", "ok"}]

\* client.chat.completions.create of the Perplexity client: the SDK raises on a
\* non-200 status and on a failed connection; the content of an answer may be null
ApiAnswers == {"status_error", "connection_error", "answer", "answer_cited", "answer_null"}

ApiError(api) ==
    IF api = "status_error" THEN <<"Error code: 401">> ELSE <<"Connection error.">>

ANSWER == <<"Seed", " ", "round", " ", "2024">>

\* founders[:3]
JoinedFounders == 3

research_companies_house(company_name, api_key, http) ==
    Returns(PyStr(
        IF api_key = <<>>
        THEN <<"Companies House API key not configured - skipping UK registry lookup.">>
        ELSE IF http.search = "raises"
        THEN <<"Companies House lookup failed: ", "timed out">>
        ELSE IF http.search = "status_500"
        THEN <<"Companies House search failed (status ", "500", ")">>
        ELSE IF http.search = "no_items"
        THEN <<"No Companies House record found for '">> \o company_name \o <<"'">>
        ELSE IF http.details = "raises"
        THEN <<"Companies House lookup failed: ", "timed out">>
        ELSE <<"## COMPANIES HOUSE DATA: ">> \o company_name \o <<NL>>
                 \o (IF http.details = "ok"
                     THEN <<"### DIRECTORS & OFFICERS:", NL,
                            "### PERSONS WITH SIGNIFICANT CONTROL (>25% ownership):", NL,
                            "### RECENT SHARE ALLOTMENTS (potential funding rounds):", NL>>
                     ELSE <<>>)
                 \o <<"Source: https://find-and-update.company-information.service.gov.uk/company/">>))

\* content += ... inside the inner try: a null content stays null, and is returned
research_investors(company_name, industry, api_key, api) ==
    IF api_key = <<>>
    THEN Returns(PyStr(<<"Perplexity API key not configured - skipping investor research.">>))
    ELSE IF api \in {"status_error", "connection_error"}
    THEN Returns(PyStr(<<"Investor research failed: ">> \o ApiError(api)))
    ELSE IF api = "answer_null"
    THEN Returns(PyNone)
    ELSE Returns(PyStr(ANSWER \o (IF api = "answer_cited"
                                  THEN <<NL, NL, "SOURCES:", NL, "[", "1", "]", " ">>
                                           \o URL \o <<NL>>
                                  ELSE <<>>)))

\* ", ".join(founders[:3]) stands before the try; content += ... stands inside it
research_with_perplexity(company_info, api_key, api) ==
    IF api_key = <<>>
    THEN Returns(PyStr(<<"No research available - Perplexity API key not configured.">>))
    ELSE IF \E i \in 1..Len(company_info.founders) :
                i <= JoinedFounders /\ company_info.founders[i].type # "str"
    THEN Raises(<<"sequence item 0: expected str instance, dict found">>)
    ELSE IF api \in {"status_error", "connection_error"}
    THEN Returns(PyStr(<<"Research failed: ">> \o ApiError(api)))
    ELSE IF api = "answer_null"
    THEN Returns(PyStr(<<"Research failed: ",
                         "unsupported operand type(s) for +=: 'NoneType' and 'str'">>))
    ELSE Returns(PyStr(ANSWER \o
             (IF api = "answer_cited"
              THEN <<NL, NL, "IMPORTANT: USE THESE VERIFIED SOURCE URLs FOR CITATIONS",
                     NL, "[", "1", "]", " ">> \o URL \o <<NL>>
              ELSE <<NL, NL, "## SOURCES", NL,
                     "No structured citations returned - verify claims independently.",
                     NL>>)))

(***************************************************************************)
(* bramble_screen.py: extract_company_info and analyze_company             *)
(***************************************************************************)
\* the three backquotes of a markdown code fence, and a JSON object, as tokens
FENCE == "<code fence>"
JSON_ACME == "{company_name: Acme, industry: food tech, founders: [Ann]}"
JSON_ROLES == "{company_name: Acme, industry: food tech, founders: [{name: Ann, role: CEO}]}"

INFO_ACME ==
    [company_name |-> <<"Acme">>, industry |-> <<"food tech">>,
     founders |-> <<PyStr(<<"Ann">>)>>]
INFO_ROLES ==
    [company_name |-> <<"Acme">>, industry |-> <<"food tech">>,
     founders |-> <<PyDict(<<"Ann">>)>>]
INFO_DEFAULT ==
    [company_name |-> <<"Unknown Company">>, industry |-> <<"food tech">>, founders |-> <<>>]

\* json.loads(text): <<dict>>, or <<>> when it raises
JsonLoads(text) ==
    IF text = <<JSON_ACME>> THEN <<INFO_ACME>>
    ELSE IF text = <<JSON_ROLES>> THEN <<INFO_ROLES>>
    ELSE <<>>

\* the dict extract_company_info returns for the text of the model's response
extract_company_info(text) ==
    LET fenced == Split(text, <<FENCE>>)[2]
        inner == IF Contains(text, <<FENCE>>)
                 THEN (IF StartsWith(fenced, <<"json">>) THEN From(fenced, 2) ELSE fenced)
                 ELSE text
        loaded == JsonLoads(Strip(inner))
    IN  IF loaded # <<>> THEN loaded[1] ELSE INFO_DEFAULT

THESIS == "Investment thesis not configured."

\* shared_context of analyze_company
SharedContext(deck_content, research_text, additional_notes) ==
    <<THESIS, NL, "===== SOURCE 1: PITCH DECK (cite as per deck) =====", NL>>
        \o deck_content
        \o <<NL, "===== SOURCE 2: EXTERNAL RESEARCH (cite with URLs) =====", NL>>
        \o research_text \o <<NL>>
        \o (IF additional_notes # <<>>
            THEN <<NL, NL, "ADDITIONAL NOTES FROM MEETING:", NL>> \o additional_notes
            ELSE <<>>)
        \o <<NL, "CITATION RULES:">>

\* a prompt for the chair that hands over the bull analyst case only
SynthesisPromptBullOnly(bull, bear, shared_context) ==
    <<"You are the IC CHAIR at Bramble Partners", NL,
      "===== BULL ANALYST'S CASE =====", NL>> \o bull
        \o <<NL, "===== ORIGINAL SOURCES =====", NL>> \o shared_context
        \o <<NL, "===== YOUR TASK =====">>

\* synthesis_prompt of analyze_company
SynthesisPrompt(bull, bear, shared_context) ==
    <<"You are the IC CHAIR at Bramble Partners", NL,
      "===== BULL ANALYST'S CASE =====", NL>> \o bull
        \o <<NL, "===== BEAR ANALYST'S CASE =====", NL>> \o bear
        \o <<NL, "===== ORIGINAL SOURCES =====", NL>> \o shared_context
        \o <<NL, "===== YOUR TASK =====">>

DELIBERATION_MARK == "===== DELIBERATION ====="
MEMO_MARK == "===== MEMO ====="

\* the memo and the deliberation analyze_company takes from the chair's response
SplitResponse(full_response) ==
    LET parts == Split(full_response, <<MEMO_MARK>>)
    IN  IF Contains(full_response, <<DELIBERATION_MARK>>) /\ Contains(full_response, <<MEMO_MARK>>)
        THEN [memo |-> Strip(parts[2]),
              deliberation |-> Strip(Split(parts[1], <<DELIBERATION_MARK>>)[2])]
        ELSE [memo |-> full_response, deliberation |-> <<>>]

(***************************************************************************)
(* The orchestrators: main of bramble_screen.py (app "cli") and the script *)
(* of streamlit_app.py (app "web").  calls lists the external steps in the *)
(* order they were started; every step is a blocking call.                 *)
(***************************************************************************)
APP_PASSWORD == "bramble2026"

Passwords == {APP_PASSWORD, "guess", ""}

ApiKeys == {"COMPANIES_HOUSE_API_KEY", "PERPLEXITY_API_KEY"}

\* what the widgets hold when a run of the web script reads them: the password
\* field, the button that was clicked to start the run ("none" for a first load, a
\* run started by st.rerun() or by another widget); the page shows the button "run"
\* once a file is uploaded
NoInput == [password |-> "", click |-> "none"]

\* the buttons the page showed when the last run ended at position at
Buttons(at, authenticated) ==
    IF ~authenticated THEN {"none", "login"}
    ELSE IF at = "end" THEN {"none", "run", "logout"}
    ELSE {"none", "run"}

DECK == <<"[Page 1]", NL, "Acme", " ", "grows", " ", "food">>
BULL_TEXT == <<"Big", " ", "market">>
BEAR_TEXT == <<"No", " ", "moat">>
MEMO_ACME == <<"#", " ", "Acme", NL, "#", "#", "#", " ", "TEAM", NL, "Strong", " ", "team">>
DATE_DISPLAY == <<"02 November 2026">>

\* what extract_pdf_text gives: an unreadable file, no text, blank text, a deck
PdfOutcomes == {Raises(<<"No /Root object">>), Returns(<<>>), Returns(<<" ", NL>>), Returns(DECK)}

\* the text of the response extract_company_info reads
InfoResponses ==
    {<<JSON_ACME>>, <<FENCE, "json", NL, JSON_ROLES, NL, FENCE>>, <<"Sorry", ",", " ", "no">>}

\* the text of the chair's response: a bare memo, deliberation and memo, and a memo
\* whose fit table has a blank rating
ChairResponses ==
    {MEMO_ACME,
     <<DELIBERATION_MARK, NL, "Close", " ", "call", NL, MEMO_MARK, NL>> \o MEMO_ACME,
     <<DELIBERATION_MARK, NL, "Close", " ", "call", NL, MEMO_MARK, NL,
       "#", " ", "Acme", NL, "#", "#", "#", " ", "FIT", NL>> \o BLANK_RATING_ROW}

API_ERROR == Raises(<<"Error code: 529">>)

StartRun(app, no_research, keys) ==
    [NoRun EXCEPT !.app = app, !.no_research = no_research, !.keys = keys]

KeyOf(name) == IF name \in main_locals.keys THEN <<"key">> ELSE <<>>

\* where a run goes when a step raises: sys.exit(1) or the traceback of main, and
\* st.error in the except clause of the web script, which then goes on below it
Abort == IF main_locals.app = "cli" THEN "exit" ELSE "memo_list"

\* st.session_state as a list of <<key, value>>
Authenticated(ss) == ss # <<>> /\ ss[1][2]
SetAuthenticated(b) == <<<<"authenticated", b>>>>

PasswordAny(password) == TRUE

\* password == APP_PASSWORD
PasswordOk(password) == password = APP_PASSWORD

InitScreen ==
    /\ MemoIdle /\ lines = <<>> /\ sections = EmptySections /\ template = FULL_TEMPLATE
    /\ arg = NoInput /\ calls = <<>> /\ session_state = <<>>
    /\ \E app \in {"cli", "web"}, no_research \in BOOLEAN, keys \in SUBSET ApiKeys :
           /\ app = "web" => ~no_research
           /\ main_locals = StartRun(app, no_research, keys)
           /\ pc = IF app = "cli" THEN "extract_pdf_text" ELSE "script"

\* a run of the web script from its top through check_password(): the locals of
\* the script are new in every run, st.session_state is kept
CheckPassword ==
    /\ pc = "script"
    /\ main_locals' = StartRun("web", FALSE, main_locals.keys)
    /\ calls' = <<>>
    /\ sections' = EmptySections /\ bull_case' = <<>> /\ bear_case' = <<>>
    /\ deliberation' = <<>> /\ html' = <<>> /\ raised' = FALSE
    /\ LET ss == IF session_state = <<>> THEN SetAuthenticated(FALSE) ELSE session_state
       IN  IF ~Authenticated(ss)
           THEN IF arg.click = "login" /\ PasswordOk(arg.password)
                THEN session_state' = SetAuthenticated(TRUE) /\ pc' = "script"
                                                             /\ arg' = NoInput
                ELSE session_state' = ss /\ pc' = "stopped" /\ arg' = arg
           ELSE session_state' = ss /\ pc' = "upload_form" /\ arg' = arg
    /\ UNCHANGED <<lines, idx, current_section, current_content, template, ret>>

\* the user types, uploads or clicks on the page a run left behind: Streamlit
\* runs the script again with the state of the widgets
UserInteracts ==
    /\ pc \in {"stopped", "end"}
    /\ \E password \in Passwords, click \in Buttons(pc, Authenticated(session_state)) :
           /\ Authenticated(session_state) => password = ""
           /\ arg' = [password |-> password, click |-> click]
    /\ pc' = "script"
    /\ UNCHANGED <<lines, idx, sections, current_section, current_content, template,
                   bull_case, bear_case, deliberation, html, raised, ret, screening>>

\* the uploader and the button "Run Investment Screen"
UploadForm ==
    /\ pc = "upload_form"
    /\ pc' = IF arg.click = "run" THEN "extract_pdf_text" ELSE "memo_list"
    /\ UNCHANGED <<lines, idx, sections, current_section, current_content, template,
                   bull_case, bear_case, deliberation, html, raised, arg, ret, screening>>

\* "Recent Memos"
MemoList ==
    /\ pc = "memo_list"
    /\ pc' = "sidebar"
    /\ UNCHANGED <<lines, idx, sections, current_section, current_content, template,
                   bull_case, bear_case, deliberation, html, raised, arg, ret, screening>>

\* the sidebar with the button "Logout"
Sidebar ==
    /\ pc = "sidebar"
    /\ IF arg.click = "logout"
       THEN session_state' = SetAuthenticated(FALSE) /\ pc' = "script" /\ arg' = NoInput
       ELSE session_state' = session_state /\ pc' = "end" /\ arg' = arg
    /\ UNCHANGED <<lines, idx, sections, current_section, current_content, template,
                   bull_case, bear_case, deliberation, html, raised, ret,
                   calls, main_locals>>

ExtractPdfText ==
    /\ pc = "extract_pdf_text"
    /\ calls' = Append(calls, "extract_pdf_text")
    /\ \E r \in PdfOutcomes :
           IF r.kind = "raise"
           THEN pc' = Abort /\ main_locals' = main_locals
           ELSE /\ main_locals' = [main_locals EXCEPT !.deck_content = r.value]
                /\ pc' = IF Strip(r.value) # <<>> THEN "client"
                         ELSE IF main_locals.app = "cli" THEN "exit" ELSE "stopped"
    /\ UNCHANGED <<lines, idx, sections, current_section, current_content, template,
                   bull_case, bear_case, deliberation, html, raised, arg, ret, session_state>>

\* client = anthropic.Anthropic(), and in main the test of --no-research after it
MakeClient ==
    /\ pc = "client"
    /\ \E made \in BOOLEAN :
           pc' = IF ~made THEN Abort
                 ELSE IF main_locals.no_research THEN "bull_analyst"
                 ELSE "extract_company_info"
    /\ UNCHANGED <<lines, idx, sections, current_section, current_content, template,
                   bull_case, bear_case, deliberation, html, raised, arg, ret, screening>>

ExtractCompanyInfo ==
    /\ pc = "extract_company_info"
    /\ calls' = Append(calls, "extract_company_info")
    /\ \E r \in {API_ERROR} \cup {Returns(text) : text \in InfoResponses} :
           IF r.kind = "raise"
           THEN pc' = Abort /\ main_locals' = main_locals
           ELSE /\ main_locals' =
                       [main_locals EXCEPT !.company_info = extract_company_info(r.value)]
                /\ pc' = "research_companies_house"
    /\ UNCHANGED <<lines, idx, sections, current_section, current_content, template,
                   bull_case, bear_case, deliberation, html, raised, arg, ret, session_state>>

ResearchCompaniesHouse ==
    /\ pc = "research_companies_house"
    /\ calls' = Append(calls, "research_companies_house")
    /\ \E http \in HttpAnswers :
           LET r == research_companies_house(main_locals.company_info.company_name,
                                             KeyOf("COMPANIES_HOUSE_API_KEY"), http)
           IN  IF r.kind = "raise"
               THEN pc' = Abort /\ main_locals' = main_locals
               ELSE /\ main_locals' = [main_locals EXCEPT !.ch_research = r.value]
                    /\ pc' = "research_investors"
    /\ UNCHANGED <<lines, idx, sections, current_section, current_content, template,
                   bull_case, bear_case, deliberation, html, raised, arg, ret, session_state>>

ResearchInvestors ==
    /\ pc = "research_investors"
    /\ calls' = Append(calls, "research_investors")
    /\ \E api \in ApiAnswers :
           LET r == research_investors(main_locals.company_info.company_name,
                                       main_locals.company_info.industry,
                                       KeyOf("PERPLEXITY_API_KEY"), api)
           IN  IF r.kind = "raise"
               THEN pc' = Abort /\ main_locals' = main_locals
               ELSE /\ main_locals' = [main_locals EXCEPT !.investor_research = r.value]
                    /\ pc' = "research_with_perplexity"
    /\ UNCHANGED <<lines, idx, sections, current_section, current_content, template,
                   bull_case, bear_case, deliberation, html, raised, arg, ret, session_state>>

\* research_text as the orchestrator puts it together after the third lookup
ResearchText(app, ch, investors, general) ==
    <<IF app = "cli" THEN "=== COMPANIES HOUSE (UK OFFICIAL REGISTRY) ==="
      ELSE "=== COMPANIES HOUSE ===", NL>> \o Format(ch)
        \o <<NL, NL, IF app = "cli" THEN "=== INVESTOR & FUNDING RESEARCH ==="
                     ELSE "=== INVESTOR RESEARCH ===", NL>> \o Format(investors)
        \o <<NL, NL, IF app = "cli" THEN "=== GENERAL COMPANY RESEARCH ==="
                     ELSE "=== GENERAL RESEARCH ===", NL>> \o Format(general)

ResearchWithPerplexity ==
    /\ pc = "research_with_perplexity"
    /\ calls' = Append(calls, "research_with_perplexity")
    /\ \E api \in ApiAnswers :
           LET r == research_with_perplexity(main_locals.company_info,
                                             KeyOf("PERPLEXITY_API_KEY"), api)
           IN  IF r.kind = "raise"
               THEN pc' = Abort /\ main_locals' = main_locals
               ELSE /\ main_locals' =
                           [main_locals EXCEPT
                               !.perplexity_research = r.value,
                               !.research_text =
                                   ResearchText(main_locals.app, main_locals.ch_research,
                                                main_locals.investor_research, r.value)]
                    /\ pc' = "bull_analyst"
    /\ UNCHANGED <<lines, idx, sections, current_section, current_content, template,
                   bull_case, bear_case, deliberation, html, raised, arg, ret, session_state>>

\* analyze_company up to the bull analyst's response
BullAnalyst ==
    /\ pc = "bull_analyst"
    /\ calls' = Append(calls, "bull_analyst")
    /\ \E r \in {API_ERROR, Returns(BULL_TEXT)} :
           IF r.kind = "raise"
           THEN pc' = Abort /\ bull_case' = bull_case
           ELSE bull_case' = r.value /\ pc' = "bear_analyst"
    /\ UNCHANGED <<lines, idx, sections, current_section, current_content, template,
                   bear_case, deliberation, html, raised, arg, ret, main_locals, session_state>>

BearAnalyst ==
    /\ pc = "bear_analyst"
    /\ calls' = Append(calls, "bear_analyst")
    /\ \E r \in {API_ERROR, Returns(BEAR_TEXT)} :
           IF r.kind = "raise"
           THEN pc' = Abort /\ bear_case' = bear_case
           ELSE bear_case' = r.value /\ pc' = "synthesis"
    /\ UNCHANGED <<lines, idx, sections, current_section, current_content, template,
                   bull_case, deliberation, html, raised, arg, ret, main_locals, session_state>>

\* the chair's call and the rest of analyze_company
Synthesis ==
    /\ pc = "synthesis"
    /\ calls' = Append(calls, "synthesis")
    /\ LET prompt == SynthesisPrompt(bull_case, bear_case,
                         SharedContext(main_locals.deck_content, main_locals.research_text,
                                       <<>>))
       IN  \E r \in {API_ERROR} \cup {Returns(text) : text \in ChairResponses} :
               IF r.kind = "raise"
               THEN /\ pc' = Abort
                    /\ main_locals' = [main_locals EXCEPT !.synthesis_prompt = prompt]
                    /\ deliberation' = deliberation
               ELSE /\ main_locals' = [main_locals EXCEPT
                                          !.synthesis_prompt = prompt,
                                          !.memo_text = SplitResponse(r.value).memo]
                    /\ deliberation' = SplitResponse(r.value).deliberation
                    /\ pc' = "create_memo"
    /\ UNCHANGED <<lines, idx, sections, current_section, current_content, template,
                   bull_case, bear_case, html, raised, arg, ret, session_state>>

\* create_memo(...): the assembly; main saves markdown when it raises, the web
\* script shows the error
CreateMemo ==
    /\ pc = "create_memo"
    /\ calls' = Append(calls, "create_memo")
    /\ sections' = parse_analysis(main_locals.memo_text)
    /\ IF GenerateRaises(sections')
       THEN raised' = TRUE /\ html' = html
       ELSE /\ raised' = FALSE
            /\ html' = generate_html(sections', template, SOURCE, DATE_DISPLAY,
                                     bull_case, bear_case, deliberation)
    /\ pc' = IF main_locals.app = "cli" THEN "done" ELSE "memo_list"
    /\ UNCHANGED <<lines, idx, current_section, current_content, template,
                   bull_case, bear_case, deliberation, arg, ret, main_locals, session_state>>

NextScreen ==
    \/ CheckPassword \/ UserInteracts \/ UploadForm \/ MemoList \/ Sidebar
    \/ ExtractPdfText \/ MakeClient \/ ExtractCompanyInfo
    \/ ResearchCompaniesHouse \/ ResearchInvestors \/ ResearchWithPerplexity
    \/ BullAnalyst \/ BearAnalyst \/ Synthesis \/ CreateMemo

SpecScreen == InitScreen /\ [][NextScreen]_vars

(***************************************************************************)
(* C28: each of the three research lookups returns a string on every path  *)
(* and never raises to the orchestrator, so a step of a lookup stores a    *)
(* string and the run goes on to the next step.                            *)
(***************************************************************************)
C28_Lookups ==
    {"research_companies_house", "research_investors", "research_with_perplexity"}

C28_Stored(step, locals) ==
    IF step = "research_companies_house" THEN locals.ch_research
    ELSE IF step = "research_investors" THEN locals.investor_research
    ELSE locals.perplexity_research

C28_Later ==
    {"research_investors", "research_with_perplexity", "bull_analyst"}

C28_AsStated ==
    [][(pc \in C28_Lookups) =>
          (pc' \in C28_Later /\ C28_Stored(pc, main_locals').type = "str")]_vars

\* what does hold: a lookup without a key, with a failing request or with an
\* error status returns a string, and only the join of the founders raises
C28_Continues ==
    /\ pc' \in C28_Later
    /\ C28_Stored(pc, main_locals').type \in {"str", "NoneType"}
    /\ C28_Stored(pc, main_locals').type = "NoneType" => pc = "research_investors"

C28_JoinRaises ==
    /\ pc = "research_with_perplexity"
    /\ "PERPLEXITY_API_KEY" \in main_locals.keys
    /\ main_locals.company_info = INFO_ROLES
    /\ pc' \notin C28_Later

C28_StringOrNone == [][(pc \in C28_Lookups) => (C28_Continues \/ C28_JoinRaises)]_vars

\* the investor lookup returned None and the memo was assembled with it
C28_Witness ==
    /\ main_locals.investor_research.type = "NoneType"
    /\ Contains(main_locals.synthesis_prompt, <<"None">>)
    /\ html # <<>>

\* the general lookup raised, and the run ended before the first analyst
C28_WitnessRaised ==
    /\ calls # <<>> /\ calls[Len(calls)] = "research_with_perplexity"
    /\ pc \in {"exit", "memo_list"}

(***************************************************************************)
(* C29: in every run of the orchestrator the external steps occur in the   *)
(* order document extraction, company-information extraction, the three    *)
(* research lookups, the advocate call, the skeptic call, the synthesis    *)
(* call, assembly; no step starts before the previous one returned, the    *)
(* synthesis prompt contains the outputs of both analysts, and assembly is *)
(* never reached when text extraction yields an empty document.            *)
(***************************************************************************)
C29_FullOrder ==
    <<"extract_pdf_text", "extract_company_info", "research_companies_house",
      "research_investors", "research_with_perplexity", "bull_analyst", "bear_analyst",
      "synthesis", "create_memo">>

\* main with --no-research
C29_ShortOrder ==
    <<"extract_pdf_text", "bull_analyst", "bear_analyst", "synthesis", "create_memo">>

C29_StartOf(order) ==
    Len(calls) <= Len(order) /\ SubSeq(order, 1, Len(calls)) = calls

\* the step has returned: its result is bound
C29_Returned(step) ==
    IF step = "extract_pdf_text" THEN main_locals.deck_content # <<>>
    ELSE IF step = "extract_company_info" 
    THEN "company_name" \in DOMAIN main_locals.company_info
    ELSE IF step = "research_companies_house" THEN main_locals.ch_research.type # "unbound"
    ELSE IF step = "research_investors" THEN main_locals.investor_research.type # "unbound"
    ELSE IF step = "research_with_perplexity"
    THEN main_locals.perplexity_research.type # "unbound"
    ELSE IF step = "bull_analyst" THEN bull_case = BULL_TEXT
    ELSE IF step = "bear_analyst" THEN bear_case = BEAR_TEXT
    ELSE IF step = "synthesis" THEN main_locals.memo_text # <<>>
    ELSE TRUE

C29_OneAtATime == \A i \in 2..Len(calls) : C29_Returned(calls[i - 1])

C29_BothCases ==
    (\E i \in 1..Len(calls) : calls[i] = "synthesis") =>
        /\ Contains(main_locals.synthesis_prompt, BULL_TEXT)
        /\ Contains(main_locals.synthesis_prompt, BEAR_TEXT)
        /\ bull_case = BULL_TEXT /\ bear_case = BEAR_TEXT

C29_NoMemoOfNothing ==
    (\E i \in 1..Len(calls) : calls[i] = "create_memo") =>
        Strip(main_locals.deck_content) # <<>>

\* as stated: every step that starts comes after all the steps before it in the list
C29_AsStated ==
    /\ C29_StartOf(C29_FullOrder)
    /\ C29_OneAtATime /\ C29_BothCases /\ C29_NoMemoOfNothing

\* as the code has it: main with --no-research goes from the text of the deck
\* straight to the advocate call, with an empty research text
C29_Order ==
    /\ \/ C29_StartOf(C29_FullOrder)
       \/ /\ main_locals.app = "cli" /\ main_locals.no_research
          /\ C29_StartOf(C29_ShortOrder)
          /\ main_locals.research_text = <<>>
    /\ main_locals.no_research => C29_StartOf(C29_ShortOrder)
    /\ C29_OneAtATime /\ C29_BothCases /\ C29_NoMemoOfNothing

\* a full run that ended with the memo assembled
C29_Witness ==
    /\ calls = C29_FullOrder
    /\ html # <<>>
    /\ Contains(main_locals.synthesis_prompt, BEAR_TEXT)

\* a run without research that ended with the memo assembled
C29_WitnessShort == calls = C29_ShortOrder /\ html # <<>>

\* extraction gave blank text and the run stopped there
C29_WitnessBlank ==
    /\ calls = <<"extract_pdf_text">> /\ main_locals.deck_content = <<" ", NL>>
    /\ pc \in {"exit", "stopped"}

(***************************************************************************)
(* C30: in the web form the upload form, the screening pipeline and the    *)
(* memo list are reached only with session authenticated true;             *)
(* authenticated starts false, becomes true only by a Login click with a   *)
(* password equal to APP_PASSWORD, a wrong password leaves it false, and   *)
(* Logout sets it back to false so that the next run stops at the login    *)
(* form.                                                                   *)
(***************************************************************************)
C30_Behind ==
    {"upload_form", "extract_pdf_text", "client", "extract_company_info",
     "research_companies_house", "research_investors", "research_with_perplexity",
     "bull_analyst", "bear_analyst", "synthesis", "create_memo", "memo_list", "sidebar",
     "end"}

C30_Gate ==
    (main_locals.app = "web" /\ pc \in C30_Behind) => Authenticated(session_state)

C30_RightLogin == arg.click = "login" /\ arg.password = APP_PASSWORD

C30_OnlyByLogin ==
    (~Authenticated(session_state) /\ Authenticated(session_state')) =>
        (pc = "script" /\ C30_RightLogin /\ pc' = "script")

C30_WrongStops ==
    (pc = "script" /\ ~Authenticated(session_state) /\ ~C30_RightLogin) =>
        (~Authenticated(session_state') /\ pc' = "stopped")

C30_Logout ==
    (pc = "sidebar" /\ arg.click = "logout") =>
        (~Authenticated(session_state') /\ pc' = "script" /\ arg'.click = "none")

C30_LoginGate ==
    /\ ~Authenticated(session_state)
    /\ []C30_Gate
    /\ [][C30_OnlyByLogin /\ C30_WrongStops /\ C30_Logout]_vars

\* a memo was made in the web form, by a user who had logged in
C30_Witness ==
    /\ main_locals.app = "web" /\ pc = "sidebar" /\ html # <<>>
    /\ Authenticated(session_state)

\* a wrong password was tried and the run stopped at the login form
C30_WitnessWrong ==
    /\ pc = "stopped" /\ arg.click = "login" /\ arg.password = "guess"
    /\ ~Authenticated(session_state)

====
